---- MODULE Spec2Model ----
(***************************************************************************)
(* The authenticated request pipeline of the Futuur MCP server:            *)
(* buildAuthHeaders and fetchFromFutuur (utils/api.ts).                    *)
(*                                                                         *)
(* Strings are sequences of one-character strings, so that prefix tests,   *)
(* sorting, percent-encoding and query parsing are computed character by   *)
(* character as the JavaScript runtime computes them.                      *)
(***************************************************************************)
EXTENDS Integers, Sequences, FiniteSets, TLC

VARIABLES
    env,        \* process.env: FUTUUR_PUBLIC_KEY / FUTUUR_PRIVATE_KEY
    dotenvFile, \* the .env file dotenv.config() reads
    now,        \* Date.now(), in milliseconds
    pc,         \* position of the fetchFromFutuur invocation
    call,       \* its arguments: endpoint, params, method, body
    frame,      \* its locals: url, signaturePayload, isPublic, headers
    sent,       \* the fetch() calls the invocation has issued
    response,   \* what the remote answered (or the network failure)
    result,     \* how the invocation settled: resolved value or rejection
    signIn,     \* payload of a direct buildAuthHeaders call
    signOut,    \* what that call returned or threw
    apiConfig,  \* the module-level apiConfig object
    configOut,  \* what the last getApiConfig() call returned
    peer,       \* a second fetchFromFutuur invocation in flight
    tool,       \* the tool invocation that is running: input, position, output
    server      \* the HTTP session server: transports map, requests, answers

vars == <<env, dotenvFile, now, pc, call, frame, sent, response, result,
          signIn, signOut, apiConfig, configOut, peer, tool, server>>

-----------------------------------------------------------------------------
(* Bounds of the model.                                                     *)

\* payload / params / body objects have at most this many fields
MaxFields == 2
\* the clock advances at most this many times in a behaviour
MaxTicks == 1

-----------------------------------------------------------------------------
(* Strings.                                                                 *)

\* printable ASCII in code order; the code unit of Ascii[i] is i + 31
\* (code 96 is spelled out: the lexer does not accept that character)
Ascii ==
    <<" ","!","\"","#","$","%","&","'","(",")","*","+",",","-",".","/",
      "0","1","2","3","4","5","6","7","8","9",":",";","<","=",">","?","@",
      "A","B","C","D","E","F","G","H","I","J","K","L","M","N","O","P","Q",
      "R","S","T","U","V","W","X","Y","Z","[","\\","]","^","_","grave",
      "a","b","c","d","e","f","g","h","i","j","k","l","m","n","o","p","q",
      "r","s","t","u","v","w","x","y","z","{","|","}","~">>

Digits == <<"0","1","2","3","4","5","6","7","8","9">>

HexDigits == <<"0","1","2","3","4","5","6","7","8","9","A","B","C","D","E","F">>

Range(s) == { s[i] : i \in 1..Len(s) }

IndexIn(c, s) == CHOOSE i \in 1..Len(s) : s[i] = c

\* UTF-16 code unit of a character
CharCode(c) == IndexIn(c, Ascii) + 31

CharOfCode(n) == Ascii[n - 31]

IsDigit(c) == c \in Range(Digits)

DigitVal(c) == IndexIn(c, Digits) - 1

\* comparison of strings by code units, as Array.prototype.sort() compares
\* with no comparator
RECURSIVE StrLess(_, _)
StrLess(a, b) ==
    IF b = <<>> THEN FALSE
    ELSE IF a = <<>> THEN TRUE
    ELSE IF Head(a) = Head(b) THEN StrLess(Tail(a), Tail(b))
    ELSE CharCode(Head(a)) < CharCode(Head(b))

\* String.prototype.startsWith
StartsWith(s, p) ==
    /\ Len(p) <= Len(s)
    /\ SubSeq(s, 1, Len(p)) = p

\* String.prototype.includes
Includes(s, p) ==
    \E i \in 1..(Len(s) - Len(p) + 1) : SubSeq(s, i, i + Len(p) - 1) = p

\* index of the first occurrence of character c in s, 0 when there is none
FirstIndex(s, c) ==
    IF c \in Range(s)
    THEN CHOOSE i \in 1..Len(s) : s[i] = c /\ \A j \in 1..(i - 1) : s[j] # c
    ELSE 0

\* String.prototype.split on a single character
RECURSIVE SplitOn(_, _)
SplitOn(s, c) ==
    LET i == FirstIndex(s, c)
    IN  IF i = 0 THEN <<s>>
        ELSE <<SubSeq(s, 1, i - 1)>> \o SplitOn(SubSeq(s, i + 1, Len(s)), c)

\* Number.prototype.toString() of a non-negative integer
RECURSIVE ToDecimal(_)
ToDecimal(n) ==
    IF n < 10 THEN <<Digits[n + 1]>>
    ELSE ToDecimal(n \div 10) \o <<Digits[(n % 10) + 1]>>

RECURSIVE DecimalValue(_)
DecimalValue(s) ==
    IF s = <<>> THEN 0
    ELSE 10 * DecimalValue(SubSeq(s, 1, Len(s) - 1)) + DigitVal(s[Len(s)])

RECURSIVE Concat(_)
Concat(ss) == IF ss = <<>> THEN <<>> ELSE Head(ss) \o Concat(Tail(ss))

\* Array.prototype.join
RECURSIVE Join(_, _)
Join(ss, sep) ==
    IF ss = <<>> THEN <<>>
    ELSE IF Len(ss) = 1 THEN ss[1]
    ELSE ss[1] \o sep \o Join(Tail(ss), sep)

-----------------------------------------------------------------------------
(* JavaScript values and objects.                                           *)

Str(s) == [t |-> "string", s |-> s, n |-> 0, a |-> <<>>]
Num(n) == [t |-> "number", s |-> <<>>, n |-> n, a |-> <<>>]
Arr(a) == [t |-> "array", s |-> <<>>, n |-> 0, a |-> a]
Undefined == [t |-> "undefined", s |-> <<>>, n |-> 0, a |-> <<>>]
Null == [t |-> "null", s |-> <<>>, n |-> 0, a |-> <<>>]

\* String(value)
RECURSIVE ToStr(_)
ToStr(v) ==
    CASE v.t = "string" -> v.s
      [] v.t = "number" -> ToDecimal(v.n)
      [] v.t = "undefined" -> <<"u","n","d","e","f","i","n","e","d">>
      [] v.t = "null" -> <<"n","u","l","l">>
      [] v.t = "array" ->
            Join([i \in 1..Len(v.a) |-> ToStr(v.a[i])], <<",">>)

\* a canonical array index ("0", "7", "10", not "01"): such keys are
\* enumerated first, in numeric order, whatever their insertion order
IsArrayIndex(k) ==
    /\ k # <<>>
    /\ Len(k) <= 9
    /\ \A i \in 1..Len(k) : IsDigit(k[i])
    /\ Len(k) = 1 \/ k[1] # "0"

\* own-key order of an object: does key a come before a newly added key b
KeyBefore(a, b) ==
    IF IsArrayIndex(b)
    THEN IsArrayIndex(a) /\ DecimalValue(a) < DecimalValue(b)
    ELSE TRUE

\* An object is the sequence of its own properties [k, v] in own-key order.
HasKey(o, k) == \E i \in 1..Len(o) : o[i].k = k

Get(o, k) == o[CHOOSE i \in 1..Len(o) : o[i].k = k].v

\* o[k] = v
ObjSet(o, k, v) ==
    IF HasKey(o, k)
    THEN [i \in 1..Len(o) |-> IF o[i].k = k THEN [k |-> k, v |-> v] ELSE o[i]]
    ELSE LET before == { i \in 1..Len(o) : KeyBefore(o[i].k, k) }
             n == Cardinality(before)
         IN  SubSeq(o, 1, n) \o <<[k |-> k, v |-> v]>> \o SubSeq(o, n + 1, Len(o))

\* the object built by assigning the entries <<key, value>> in order
\* (an object literal, Object.fromEntries)
RECURSIVE FromEntries(_)
FromEntries(es) ==
    IF es = <<>> THEN <<>>
    ELSE LET e == es[Len(es)]
         IN  ObjSet(FromEntries(SubSeq(es, 1, Len(es) - 1)), e[1], e[2])

\* Object.entries
Entries(o) == [i \in 1..Len(o) |-> <<o[i].k, o[i].v>>]

\* Object.keys
Keys(o) == [i \in 1..Len(o) |-> o[i].k]

\* { ...a, ...b }
Spread(a, b) == FromEntries(Entries(a) \o Entries(b))


\* Array.prototype.sort() of an array of strings, no comparator
RECURSIVE InsertSorted(_, _)
InsertSorted(sorted, k) ==
    IF sorted = <<>> THEN <<k>>
    ELSE IF StrLess(k, Head(sorted)) THEN <<k>> \o sorted
    ELSE <<Head(sorted)>> \o InsertSorted(Tail(sorted), k)

RECURSIVE SortStrings(_)
SortStrings(ks) ==
    IF ks = <<>> THEN <<>>
    ELSE InsertSorted(SortStrings(SubSeq(ks, 1, Len(ks) - 1)), ks[Len(ks)])

\* JSON.stringify of a string: quoted, with quote and backslash escaped
JsonQuote(s) ==
    <<"\"">>
    \o Concat([i \in 1..Len(s) |->
                 IF s[i] \in {"\"", "\\"} THEN <<"\\", s[i]>> ELSE <<s[i]>>])
    \o <<"\"">>

\* JSON.stringify of a value; undefined inside an array becomes null
RECURSIVE JsonValue(_)
JsonValue(v) ==
    CASE v.t = "string" -> JsonQuote(v.s)
      [] v.t = "number" -> ToDecimal(v.n)
      [] v.t = "undefined" -> <<"n","u","l","l">>
      [] v.t = "null" -> <<"n","u","l","l">>
      [] v.t = "array" ->
            <<"[">> \o Join([i \in 1..Len(v.a) |-> JsonValue(v.a[i])], <<",">>)
            \o <<"]">>

\* the properties JSON.stringify keeps: those whose value is not undefined
RECURSIVE Defined(_)
Defined(o) ==
    IF o = <<>> THEN <<>>
    ELSE IF Head(o).v.t = "undefined" THEN Defined(Tail(o))
    ELSE <<Head(o)>> \o Defined(Tail(o))

\* JSON.stringify of an object
JsonStringify(o) ==
    LET d == Defined(o)
    IN  <<"{">>
        \o Join([i \in 1..Len(d) |-> JsonQuote(d[i].k) \o <<":">> \o JsonValue(d[i].v)],
                <<",">>)
        \o <<"}">>

-----------------------------------------------------------------------------
(* application/x-www-form-urlencoded, URLSearchParams and URL.              *)

IsAlnum(c) ==
    LET n == CharCode(c)
    IN  \/ IsDigit(c)
        \/ n >= CharCode("A") /\ n <= CharCode("Z")
        \/ n >= CharCode("a") /\ n <= CharCode("z")

\* the serializer leaves alphanumerics and * - . _ alone, turns a space
\* into + and percent-encodes every other character
FormEncodeChar(c) ==
    IF IsAlnum(c) \/ c \in {"*", "-", ".", "_"} THEN <<c>>
    ELSE IF c = " " THEN <<"+">>
    ELSE <<"%", HexDigits[(CharCode(c) \div 16) + 1], HexDigits[(CharCode(c) % 16) + 1]>>

FormEncode(s) == Concat([i \in 1..Len(s) |-> FormEncodeChar(s[i])])

\* URLSearchParams.prototype.toString of a list of <<name, value>> pairs
SerializeParams(list) ==
    Join([i \in 1..Len(list) |-> FormEncode(list[i][1]) \o <<"=">> \o FormEncode(list[i][2])],
         <<"&">>)

IsHex(c) == c \in Range(HexDigits) \/ c \in {"a", "b", "c", "d", "e", "f"}

HexVal(c) ==
    IF c \in Range(HexDigits) THEN IndexIn(c, HexDigits) - 1
    ELSE CharCode(c) - CharCode("a") + 10

RECURSIVE PercentDecode(_)
PercentDecode(s) ==
    IF s = <<>> THEN <<>>
    ELSE IF s[1] = "%" /\ Len(s) >= 3 /\ IsHex(s[2]) /\ IsHex(s[3])
    THEN <<CharOfCode(16 * HexVal(s[2]) + HexVal(s[3]))>>
         \o PercentDecode(SubSeq(s, 4, Len(s)))
    ELSE <<s[1]>> \o PercentDecode(Tail(s))

PlusToSpace(s) == [i \in 1..Len(s) |-> IF s[i] = "+" THEN " " ELSE s[i]]

\* one name=value field of a query string
ParseField(f) ==
    LET i == FirstIndex(f, "=")
        name == IF i = 0 THEN f ELSE SubSeq(f, 1, i - 1)
        value == IF i = 0 THEN <<>> ELSE SubSeq(f, i + 1, Len(f))
    IN  <<PercentDecode(PlusToSpace(name)), PercentDecode(PlusToSpace(value))>>

RECURSIVE ParseFields(_)
ParseFields(fs) ==
    IF fs = <<>> THEN <<>>
    ELSE IF Head(fs) = <<>> THEN ParseFields(Tail(fs))
    ELSE <<ParseField(Head(fs))>> \o ParseFields(Tail(fs))

\* the application/x-www-form-urlencoded parser: the list of <<name, value>>
\* pairs of a query string
ParseQuery(q) == ParseFields(SplitOn(q, "&"))

\* new URLSearchParams(record): one pair per own property, value as String
ParamsOfRecord(o) == [i \in 1..Len(o) |-> <<o[i].k, ToStr(o[i].v)>>]


\* the fixed base of every request
BaseOrigin == <<"h","t","t","p","s",":","/","/","a","p","i",".","f","u","t","u","u","r",".","c","o","m">>

\* where the authority of a reference ends: at the first "/", "?" or "#"
AuthorityEnd(s) ==
    IF \E i \in 1..Len(s) : s[i] \in {"/", "?", "#"}
    THEN CHOOSE i \in 1..Len(s) :
            /\ s[i] \in {"/", "?", "#"}
            /\ \A j \in 1..(i - 1) : s[j] \notin {"/", "?", "#"}
    ELSE Len(s) + 1

\* new URL(endpoint, base): a reference with its own scheme and authority
\* ("https://host/...") keeps both, a scheme-relative one ("//host/...")
\* takes the scheme of the base and its own host, and a path reference, with
\* or without a leading slash, takes scheme and host of the base (whose path
\* is "/"); the reference supplies path, query and fragment; searchParams is
\* the parsed query.  Dot segments are not resolved: no endpoint has any.
NewURL(endpoint) ==
    LET scheme == IF StartsWith(endpoint, <<"h","t","t","p","s",":","/","/">>) THEN <<"h","t","t","p","s",":">>
                  ELSE IF StartsWith(endpoint, <<"h","t","t","p",":","/","/">>) THEN <<"h","t","t","p",":">>
                  ELSE <<>>
        afterScheme == SubSeq(endpoint, Len(scheme) + 1, Len(endpoint))
        hasAuthority == StartsWith(afterScheme, <<"/","/">>)
        afterSlashes == SubSeq(afterScheme, 3, Len(afterScheme))
        e == AuthorityEnd(afterSlashes)
        host == SubSeq(afterSlashes, 1, e - 1)
        ref == IF hasAuthority THEN SubSeq(afterSlashes, e, Len(afterSlashes))
               ELSE endpoint
        h == FirstIndex(ref, "#")
        noHash == IF h = 0 THEN ref ELSE SubSeq(ref, 1, h - 1)
        q == FirstIndex(noHash, "?")
        path == IF q = 0 THEN noHash ELSE SubSeq(noHash, 1, q - 1)
        query == IF q = 0 THEN <<>> ELSE SubSeq(noHash, q + 1, Len(noHash))
    IN  [origin |-> IF hasAuthority
                    THEN (IF scheme = <<>> THEN <<"h","t","t","p","s",":">> ELSE scheme) \o <<"/","/">> \o host
                    ELSE BaseOrigin,
         pathname |-> IF StartsWith(path, <<"/">>) THEN path ELSE <<"/">> \o path,
         hasQuery |-> q # 0,
         query |-> query,
         hash |-> IF h = 0 THEN <<>> ELSE SubSeq(ref, h, Len(ref)),
         searchParams |-> ParseQuery(query)]

\* url.searchParams.append(name, value): the list grows and the URL's query
\* is rewritten as the serialization of the whole list
SearchParamsAppend(url, name, value) ==
    LET list == Append(url.searchParams, <<name, value>>)
    IN  [url EXCEPT !.searchParams = list,
                    !.hasQuery = TRUE,
                    !.query = SerializeParams(list)]

\* url.toString()
UrlToString(url) ==
    url.origin \o url.pathname
    \o (IF url.hasQuery THEN <<"?">> \o url.query ELSE <<>>)
    \o url.hash

-----------------------------------------------------------------------------
(* Credentials in the environment.                                          *)

Absent == [def |-> FALSE, val |-> <<>>]
Val(s) == [def |-> TRUE, val |-> s]

\* !x for an environment variable: unset or the empty string
Falsy(x) == ~x.def \/ x.val = <<>>

\* dotenv.config(): a variable of the .env file is copied into process.env
\* unless process.env already defines it
DotenvConfig(e, file) ==
    [pub |-> IF e.pub.def THEN e.pub ELSE file.pub,
     priv |-> IF e.priv.def THEN e.priv ELSE file.priv]

-----------------------------------------------------------------------------
(* buildAuthHeaders.                                                        *)

KEY == <<"K","e","y">>
TIMESTAMP == <<"T","i","m","e","s","t","a","m","p">>
HMAC == <<"H","M","A","C">>

NoError == [name |-> "", message |-> <<>>]

BoolText(b) == IF b THEN <<"t","r","u","e">> ELSE <<"f","a","l","s","e">>

KeysMissingError(key, secret) ==
    [name |-> "Error",
     message |-> <<"F","u","t","u","u","r"," ","k","e","y","s"," ","m","i","s","s","i","n","g"," ","i","n"," ","e","n","v",":"," ","k","e","y","=">> \o BoolText(~Falsy(key))
                 \o <<","," ","s","e","c","r","e","t","=">> \o BoolText(~Falsy(secret))]

\* mutant: the seconds rounded to the nearest
TimestampOf_Rounded(ms) == (ms + 500) \div 1000
\* Math.floor(Date.now() / 1000)
TimestampOf(ms) == ms \div 1000

\* mutant: the payload spread last, { Key, Timestamp, ...payload }
ParamsToSign_PayloadLast(payload, key, timestamp) ==
    FromEntries(<< <<KEY, Str(key)>>, <<TIMESTAMP, Num(timestamp)>> >>
                \o Entries(payload))

\* { ...payload, Key: key, Timestamp: timestamp }
ParamsToSign(payload, key, timestamp) ==
    FromEntries(Entries(payload)
                \o << <<KEY, Str(key)>>, <<TIMESTAMP, Num(timestamp)>> >>)

\* mutant: the .sort() left out
SortedParams_Unsorted(paramsToSign) == paramsToSign

\* Object.keys(paramsToSign).sort().reduce(...): the properties copied, one
\* by one in sorted key order, into a fresh object
SortedParams(paramsToSign) ==
    LET ks == SortStrings(Keys(paramsToSign))
    IN  FromEntries([i \in 1..Len(ks) |-> <<ks[i], Get(paramsToSign, ks[i])>>])

\* new URLSearchParams(sortedParams).toString()
ParamString(sortedParams) == SerializeParams(ParamsOfRecord(sortedParams))

\* crypto.createHmac("sha512", secret).update(message).digest("hex"), as an
\* ideal MAC: the digest determines, and is determined by, secret and message
HmacSha512(secret, message) ==
    <<"hmac-sha512(">> \o secret \o <<"|">> \o message \o <<")">>

\* mutant: the guard written !key && !secret
BuildAuthHeaders_BothMissing(payload, e, ms) ==
    IF Falsy(e.pub) /\ Falsy(e.priv)
    THEN [threw |-> TRUE, error |-> KeysMissingError(e.pub, e.priv), headers |-> <<>>]
    ELSE LET timestamp == TimestampOf(ms)
             paramString == ParamString(SortedParams(
                                ParamsToSign(payload, e.pub.val, timestamp)))
         IN  [threw |-> FALSE,
              error |-> NoError,
              headers |-> FromEntries(<<
                  <<KEY, Str(e.pub.val)>>,
                  <<TIMESTAMP, Str(ToDecimal(timestamp))>>,
                  <<HMAC, Str(HmacSha512(e.priv.val, paramString))>> >>)]

\* buildAuthHeaders(payload) once dotenv.config() has run: e is process.env
\* and ms the clock
BuildAuthHeaders(payload, e, ms) ==
    IF Falsy(e.pub) \/ Falsy(e.priv)
    THEN [threw |-> TRUE, error |-> KeysMissingError(e.pub, e.priv), headers |-> <<>>]
    ELSE LET timestamp == TimestampOf(ms)
             paramString == ParamString(SortedParams(
                                ParamsToSign(payload, e.pub.val, timestamp)))
         IN  [threw |-> FALSE,
              error |-> NoError,
              headers |-> FromEntries(<<
                  <<KEY, Str(e.pub.val)>>,
                  <<TIMESTAMP, Str(ToDecimal(timestamp))>>,
                  <<HMAC, Str(HmacSha512(e.priv.val, paramString))>> >>)]


-----------------------------------------------------------------------------
(* fetchFromFutuur: from the call to the fetch().                           *)

GET == <<"G","E","T">>
POST == <<"P","O","S","T">>
PATCH == <<"P","A","T","C","H">>

USER_AGENT == <<"U","s","e","r","-","A","g","e","n","t">>
CONTENT_TYPE == <<"C","o","n","t","e","n","t","-","T","y","p","e">>

UserAgentValue == <<"M","o","z","i","l","l","a","/","5",".","0"," ","(","c","o","m","p","a","t","i","b","l","e",";"," ","M","y","S","e","r","v","e","r","B","o","t","/","1",".","0",";"," ","+","h","t","t","p","s",":","/","/","e","x","a","m","p","l","e",".","c","o","m",")">>

ApplicationJson == <<"a","p","p","l","i","c","a","t","i","o","n","/","j","s","o","n">>

NoBody == [present |-> FALSE, obj |-> <<>>]
Body(o) == [present |-> TRUE, obj |-> o]

\* Object.entries(params).forEach(...): undefined is skipped, an array is
\* appended element by element, anything else once
RECURSIVE AppendValues(_, _, _)
AppendValues(url, name, values) ==
    IF values = <<>> THEN url
    ELSE AppendValues(SearchParamsAppend(url, name, ToStr(Head(values))),
                      name, Tail(values))

RECURSIVE AppendParams_CommaJoined(_, _)
\* mutant: an array appended as one value, String(array)
AppendParams_CommaJoined(url, entries) ==
    IF entries = <<>> THEN url
    ELSE LET name == Head(entries)[1]
             value == Head(entries)[2]
             next == IF value.t = "undefined" THEN url
                     ELSE SearchParamsAppend(url, name, ToStr(value))
         IN  AppendParams_CommaJoined(next, Tail(entries))
RECURSIVE AppendParams(_, _)
AppendParams(url, entries) ==
    IF entries = <<>> THEN url
    ELSE LET name == Head(entries)[1]
             value == Head(entries)[2]
             next == CASE value.t = "undefined" -> url
                       [] value.t = "array" -> AppendValues(url, name, value.a)
                       [] OTHER -> SearchParamsAppend(url, name, ToStr(value))
         IN  AppendParams(next, Tail(entries))

\* the URL after the query parameters have been added
RequestUrl(endpoint, params) == AppendParams(NewURL(endpoint), Entries(params))

\* Object.fromEntries(url.searchParams.entries())
SearchParamsObject(url) ==
    FromEntries([i \in 1..Len(url.searchParams) |->
                    <<url.searchParams[i][1], Str(url.searchParams[i][2])>>])

\* what gets signed: the query for a GET, else body || {}
SignaturePayload(method, url, body) ==
    IF method = GET THEN SearchParamsObject(url)
    ELSE IF body.present THEN body.obj
    ELSE <<>>

publicPrefixes == << <<"e","v","e","n","t","s">>, <<"c","a","t","e","g","o","r","i","e","s">> >>

\* mutant: only the startsWith test
IsPublic_StartsWithOnly(endpoint) ==
    \E i \in 1..Len(publicPrefixes) : StartsWith(endpoint, publicPrefixes[i])

\* publicPrefixes.some(prefix => endpoint.startsWith(prefix) ||
\*                               endpoint.includes(`/${prefix}`))
IsPublic(endpoint) ==
    \E i \in 1..Len(publicPrefixes) :
        \/ StartsWith(endpoint, publicPrefixes[i])
        \/ Includes(endpoint, <<"/">> \o publicPrefixes[i])

BaseHeaders == FromEntries(<< <<USER_AGENT, Str(UserAgentValue)>> >>)

\* mutant: the auth headers computed but not merged
WithAuth_NotMerged(headers, isPublic, authHeaders) == headers

\* headers = { ...headers, ...authHeaders } for a non-public endpoint
WithAuth(headers, isPublic, authHeaders) ==
    IF isPublic THEN headers ELSE Spread(headers, authHeaders)

\* mutant: the headers object replaced instead of extended
WithContentType_Replaces(headers, method) ==
    IF method = POST \/ method = PATCH
    THEN FromEntries(<< <<CONTENT_TYPE, Str(ApplicationJson)>> >>)
    ELSE headers
\* headers["Content-Type"] = "application/json" for POST and PATCH
WithContentType(headers, method) ==
    IF method = POST \/ method = PATCH
    THEN ObjSet(headers, CONTENT_TYPE, Str(ApplicationJson))
    ELSE headers

\* mutant: the body attached whatever the method
RequestBody_AnyMethod(method, body) ==
    IF body.present
    THEN [present |-> TRUE, text |-> JsonStringify(body.obj)]
    ELSE [present |-> FALSE, text |-> <<>>]

\* fetchOptions.body: JSON.stringify(body) when there is a body and the
\* method is POST or PATCH
RequestBody(method, body) ==
    IF body.present /\ (method = POST \/ method = PATCH)
    THEN [present |-> TRUE, text |-> JsonStringify(body.obj)]
    ELSE [present |-> FALSE, text |-> <<>>]

\* the arguments of fetch(url.toString(), fetchOptions)
FetchRequest(url, method, headers, body) ==
    [url |-> UrlToString(url),
     method |-> method,
     headers |-> headers,
     body |-> RequestBody(method, body)]


-----------------------------------------------------------------------------
(* fetchFromFutuur: after the fetch().                                      *)

NoResponse == [kind |-> "none", status |-> 0, statusText |-> <<>>,
               json |-> FALSE, body |-> <<>>]

HttpResponse(status, statusText, json, body) ==
    [kind |-> "http", status |-> status, statusText |-> statusText,
     json |-> json, body |-> body]

NetworkFailure == [kind |-> "network", status |-> 0, statusText |-> <<>>,
                   json |-> FALSE, body |-> <<>>]

\* response.ok
Ok(resp) == resp.status >= 200 /\ resp.status <= 299

Pending == [state |-> "pending", error |-> NoError, value |-> <<>>]
Resolved(v) == [state |-> "resolved", error |-> NoError, value |-> v]
Rejected(e) == [state |-> "rejected", error |-> e, value |-> <<>>]

\* mutant: the headers object itself put in the details, values included
ErrorDetails_HeaderValues(resp, url, method, headers) ==
    FromEntries(<<
        <<<<"s","t","a","t","u","s">>, Num(resp.status)>>,
        <<<<"s","t","a","t","u","s","T","e","x","t">>, Str(resp.statusText)>>,
        <<<<"u","r","l">>, Str(UrlToString(url))>>,
        <<<<"m","e","t","h","o","d">>, Str(method)>>,
        <<<<"h","e","a","d","e","r","s">>, Arr([i \in 1..Len(headers) |->
                            Str(headers[i].k \o <<":">> \o headers[i].v.s)])>> >>)

\* errorDetails
ErrorDetails(resp, url, method, headers) ==
    FromEntries(<<
        <<<<"s","t","a","t","u","s">>, Num(resp.status)>>,
        <<<<"s","t","a","t","u","s","T","e","x","t">>, Str(resp.statusText)>>,
        <<<<"u","r","l">>, Str(UrlToString(url))>>,
        <<<<"m","e","t","h","o","d">>, Str(method)>>,
        <<<<"h","e","a","d","e","r","s">>, Arr([i \in 1..Len(headers) |-> Str(headers[i].k)])>> >>)

\* new Error(`Futuur API ${response.status} for ${endpoint}: ${JSON.stringify(errorDetails)}`)
ApiError(resp, endpoint, url, method, headers) ==
    [name |-> "Error",
     message |-> <<"F","u","t","u","u","r"," ","A","P","I"," ">> \o ToDecimal(resp.status) \o <<" ","f","o","r"," ">> \o endpoint
                 \o <<":"," ">> \o JsonStringify(ErrorDetails(resp, url, method, headers))]

\* the rejection of fetch() itself: no response was received
FetchFailed == [name |-> "TypeError", message |-> <<"f","e","t","c","h"," ","f","a","i","l","e","d">>]

\* mutant: a parse failure caught and turned into an empty object
ResponseJson_EmptyOnFailure(resp) ==
    IF resp.json THEN Resolved(resp.body) ELSE Resolved(<<"{","}">>)

\* return response.json(): the parsed body, or the parser's rejection
ResponseJson(resp) ==
    IF resp.json THEN Resolved(resp.body)
    ELSE Rejected([name |-> "SyntaxError",
                   message |-> <<"U","n","e","x","p","e","c","t","e","d"," ","t","o","k","e","n"," ","i","n"," ","J","S","O","N">>])

\* how the invocation settles once fetch() has settled
Settle(resp, endpoint, url, method, headers) ==
    IF resp.kind = "network" THEN Rejected(FetchFailed)
    ELSE IF ~Ok(resp) THEN Rejected(ApiError(resp, endpoint, url, method, headers))
    ELSE ResponseJson(resp)

-----------------------------------------------------------------------------
(* The inputs the model draws from.                                         *)

RECURSIVE SeqsUpTo(_, _)
\* the sequences over S of length at most n
SeqsUpTo(S, n) ==
    IF n = 0 THEN {<<>>}
    ELSE LET shorter == SeqsUpTo(S, n - 1)
         IN  shorter \cup { Append(q, x) : q \in shorter, x \in S }

\* the objects with keys in K and values in V, at most MaxFields properties,
\* in every insertion order
ObjectsOver(K, V) ==
    { FromEntries(es) :
        es \in { q \in SeqsUpTo(K \X V, MaxFields) :
                   \A i, j \in 1..Len(q) : i # j => q[i][1] # q[j][1] } }

FetchKeys == { <<"a">>, <<"b">> }
FetchValues == { Str(<<"x">>), Undefined, Arr(<<Str(<<"x">>), Str(<<"y"," ","z">>)>>) }
FetchObjects == ObjectsOver(FetchKeys, FetchValues)

OneObject == FromEntries(<< <<<<"a">>, Str(<<"x">>)>> >>)

\* endpoints called with every params and body
RichEndpoints == { <<"b","e","t","s","/">>, <<"b","e","t","s","/","?","a","=","w">> }
\* endpoints called with few; the last two name another host
PlainEndpoints ==
    { <<"e","v","e","n","t","s","/">>, <<"c","a","t","e","g","o","r","i","e","s","/","5","/">>, <<"w","a","g","e","r","s","/","1","/">>, <<"m","e">>, <<"o","r","d","e","r","s","/">>, <<"v","1","/","e","v","e","n","t","s","/">>,
      <<"/","/","e","v","i","l",".","t","e","s","t","/","m","e">>, <<"h","t","t","p","s",":","/","/","e","v","i","l",".","t","e","s","t","/","m","e">> }
Endpoints == RichEndpoints \cup PlainEndpoints

Methods == { GET, POST, PATCH }

CallArgs(endpoint, params, method, body) ==
    [endpoint |-> endpoint, params |-> params, method |-> method, body |-> body]

Calls ==
    { CallArgs(e, p, GET, b) :
        e \in RichEndpoints, p \in FetchObjects, b \in {NoBody, Body(OneObject)} }
    \cup { CallArgs(e, p, POST, b) :
        e \in RichEndpoints, p \in {<<>>, OneObject},
        b \in {NoBody} \cup { Body(o) : o \in FetchObjects } }
    \cup { CallArgs(e, p, m, b) :
        e \in PlainEndpoints, p \in {<<>>, OneObject}, m \in Methods,
        b \in {NoBody, Body(OneObject)} }
    \cup { CallArgs(<<"q","u","e","s","t","i","o","n","s","/">>, FromEntries(<< <<<<"l","i","m","i","t">>, Num(10)>> >>), GET, NoBody) }

\* process.env as the process is started: both keys, one of them unset or
\* empty, or none
Envs ==
    { [pub |-> Val(<<"p","u","b","A">>), priv |-> Val(<<"s","e","c","A">>)],
      [pub |-> Absent, priv |-> Val(<<"s","e","c","A">>)],
      [pub |-> Val(<<"p","u","b","A">>), priv |-> Val(<<>>)],
      [pub |-> Absent, priv |-> Absent] }

DotenvFiles ==
    { [pub |-> Absent, priv |-> Absent],
      [pub |-> Val(<<"p","u","b","B">>), priv |-> Val(<<"s","e","c","B">>)] }

Responses ==
    { HttpResponse(200, <<"O","K">>, TRUE, <<"{","\"","s","u","c","c","e","s","s","\"",":","t","r","u","e","}">>),
      HttpResponse(200, <<"O","K">>, FALSE, <<"<","h","t","m","l",">">>),
      HttpResponse(403, <<"F","o","r","b","i","d","d","e","n">>, FALSE, <<>>),
      HttpResponse(500, <<"I","n","t","e","r","n","a","l"," ","S","e","r","v","e","r"," ","E","r","r","o","r">>, TRUE, <<"{","\"","d","e","t","a","i","l","\"",":","\"","x","\"","}">>),
      NetworkFailure }

\* the clock starts in the middle of a second
ClockValues == { 77500 + 600 * i : i \in 0..MaxTicks }

\* payloads handed to buildAuthHeaders directly
SignKeys == { <<"a">>, <<"B">>, <<"1","0">>, <<"9">>, <<"K","e","y">>, <<"T","i","m","e","s","t","a","m","p">> }
SignValues == { Str(<<"x">>), Str(<<"p","&","q">>) }
SignPayloads == ObjectsOver(SignKeys, SignValues)

-----------------------------------------------------------------------------
(* The state machine of one fetchFromFutuur invocation at a time.           *)

NotCalled == [state |-> "none", error |-> NoError, headers |-> <<>>]

NoCall == CallArgs(<<>>, <<>>, <<>>, NoBody)

NoFrame == [url |-> NewURL(<<>>), signaturePayload |-> <<>>,
            isPublic |-> FALSE, headers |-> <<>>]

\* getApiConfig() has not been called
NoConfig == [called |-> FALSE, config |-> <<>>]

\* no tool is running
NoTool == [pc |-> "idle"]

\* the session server is not part of the behaviour
NoServer == [up |-> FALSE]

\* no second invocation
NoPeer == [pc |-> "idle", call |-> NoCall, frame |-> NoFrame, sent |-> <<>>,
           response |-> NoResponse, result |-> Pending]

Init ==
    /\ dotenvFile \in DotenvFiles
    /\ \E e \in Envs : env = DotenvConfig(e, dotenvFile)
    /\ now = 77500
    /\ pc = "idle"
    /\ call = NoCall
    /\ frame = NoFrame
    /\ sent = <<>>
    /\ response = NoResponse
    /\ result = Pending
    /\ signIn = <<>>
    /\ signOut = NotCalled
    /\ apiConfig = <<>>
    /\ configOut = NoConfig
    /\ peer = NoPeer
    /\ tool = NoTool
    /\ server = NoServer

\* fetchFromFutuur(endpoint, { params, method, body }) up to its await:
\* either buildAuthHeaders throws and nothing is sent, or fetch() is called
FetchFromFutuur(c) ==
    /\ pc = "idle"
    /\ LET url == RequestUrl(c.endpoint, c.params)
           signaturePayload == SignaturePayload(c.method, url, c.body)
           isPublic == IsPublic(c.endpoint)
           e == IF isPublic THEN env ELSE DotenvConfig(env, dotenvFile)
           auth == IF isPublic
                   THEN [threw |-> FALSE, error |-> NoError, headers |-> <<>>]
                   ELSE BuildAuthHeaders(signaturePayload, e, now)
           headers == WithContentType(WithAuth(BaseHeaders, isPublic, auth.headers),
                                      c.method)
       IN  /\ env' = e
           /\ call' = c
           /\ response' = NoResponse
           /\ IF auth.threw
              THEN /\ frame' = [url |-> url, signaturePayload |-> signaturePayload,
                                isPublic |-> isPublic, headers |-> BaseHeaders]
                   /\ sent' = <<>>
                   /\ result' = Rejected(auth.error)
                   /\ pc' = "done"
              ELSE /\ frame' = [url |-> url, signaturePayload |-> signaturePayload,
                                isPublic |-> isPublic, headers |-> headers]
                   /\ sent' = <<FetchRequest(url, c.method, headers, c.body)>>
                   /\ result' = Pending
                   /\ pc' = "awaiting"
    /\ UNCHANGED <<dotenvFile, now, signIn, signOut, apiConfig, configOut, peer, tool, server>>

\* the remote answers, or the network fails
FetchSettles(r) ==
    /\ pc = "awaiting"
    /\ response' = r
    /\ pc' = "settled"
    /\ UNCHANGED <<env, dotenvFile, now, call, frame, sent, result, signIn, signOut,
                   apiConfig, configOut, peer, tool, server>>

\* mutant: a failed exchange is sent once more
AfterFetch_Retry ==
    /\ pc = "settled"
    /\ IF response.kind = "network" \/ ~Ok(response)
       THEN /\ sent' = Append(sent, sent[1])
            /\ pc' = "awaiting"
            /\ result' = result
       ELSE /\ sent' = sent
            /\ pc' = "done"
            /\ result' = Settle(response, call.endpoint, frame.url, call.method, frame.headers)
    /\ UNCHANGED <<env, dotenvFile, now, call, frame, response, signIn, signOut,
                   apiConfig, configOut, peer, tool, server>>
\* the rest of fetchFromFutuur, from the await on
AfterFetch ==
    /\ pc = "settled"
    /\ result' = Settle(response, call.endpoint, frame.url, call.method, frame.headers)
    /\ pc' = "done"
    /\ UNCHANGED <<env, dotenvFile, now, call, frame, sent, response, signIn, signOut,
                   apiConfig, configOut, peer, tool, server>>

\* the caller has the outcome; the next invocation may start
Return ==
    /\ pc = "done"
    /\ pc' = "idle"
    /\ call' = NoCall
    /\ frame' = NoFrame
    /\ sent' = <<>>
    /\ response' = NoResponse
    /\ result' = Pending
    /\ UNCHANGED <<env, dotenvFile, now, signIn, signOut, apiConfig, configOut, peer, tool, server>>

\* time passes
Tick ==
    /\ now + 600 \in ClockValues
    /\ now' = now + 600
    /\ UNCHANGED <<env, dotenvFile, pc, call, frame, sent, response, result,
                   signIn, signOut, apiConfig, configOut, peer, tool, server>>

Next ==
    \/ \E c \in Calls : FetchFromFutuur(c)
    \/ \E r \in Responses : FetchSettles(r)
    \/ AfterFetch
    \/ Return
    \/ Tick

Spec == Init /\ [][Next]_vars


-----------------------------------------------------------------------------
(* buildAuthHeaders called directly, as its exported signature allows.      *)

SignInit ==
    /\ dotenvFile \in DotenvFiles
    /\ \E e \in Envs : env = DotenvConfig(e, dotenvFile)
    /\ now \in ClockValues
    /\ pc = "idle"
    /\ call = NoCall
    /\ frame = NoFrame
    /\ sent = <<>>
    /\ response = NoResponse
    /\ result = Pending
    /\ signIn \in SignPayloads
    /\ signOut = NotCalled
    /\ apiConfig = <<>>
    /\ configOut = NoConfig
    /\ peer = NoPeer
    /\ tool = NoTool
    /\ server = NoServer

\* buildAuthHeaders(signIn): dotenv.config(), then the headers or the throw
CallBuildAuthHeaders ==
    /\ signOut.state = "none"
    /\ LET e == DotenvConfig(env, dotenvFile)
           auth == BuildAuthHeaders(signIn, e, now)
       IN  /\ env' = e
           /\ signOut' = [state |-> IF auth.threw THEN "threw" ELSE "returned",
                          error |-> auth.error,
                          headers |-> auth.headers]
    /\ UNCHANGED <<dotenvFile, now, pc, call, frame, sent, response, result, signIn,
                   apiConfig, configOut, peer, tool, server>>

SignNext == CallBuildAuthHeaders

SpecSign == SignInit /\ [][SignNext]_vars


-----------------------------------------------------------------------------
(* Two fetchFromFutuur invocations in flight: each runs without interruption *)
(* up to its await, and the two interleave at the awaits.                   *)

ConcCalls ==
    { CallArgs(<<"b","e","t","s","/">>, OneObject, GET, NoBody),
      CallArgs(<<"o","r","d","e","r","s","/">>, <<>>, POST, Body(OneObject)),
      CallArgs(<<"e","v","e","n","t","s","/">>, <<>>, GET, NoBody) }

ConcEnvs ==
    { [pub |-> Val(<<"p","u","b","A">>), priv |-> Val(<<"s","e","c","A">>)],
      [pub |-> Val(<<"p","u","b","B">>), priv |-> Val(<<"s","e","c","B">>)],
      [pub |-> Absent, priv |-> Val(<<"s","e","c","A">>)] }

ConcResponses ==
    { HttpResponse(200, <<"O","K">>, TRUE, <<"{","}">>),
      HttpResponse(403, <<"F","o","r","b","i","d","d","e","n">>, FALSE, <<>>) }

ConcInit ==
    /\ dotenvFile = [pub |-> Absent, priv |-> Absent]
    /\ env = [pub |-> Val(<<"p","u","b","A">>), priv |-> Val(<<"s","e","c","A">>)]
    /\ now = 77500
    /\ pc = "idle"
    /\ call = NoCall
    /\ frame = NoFrame
    /\ sent = <<>>
    /\ response = NoResponse
    /\ result = Pending
    /\ signIn = <<>>
    /\ signOut = NotCalled
    /\ apiConfig = <<>>
    /\ configOut = NoConfig
    /\ peer = NoPeer
    /\ tool = NoTool
    /\ server = NoServer

\* mutant: url and headers kept at module level, so that the second
\* invocation overwrites those of the first
PeerFetchFromFutuur_SharedLocals(c) ==
    /\ peer.pc = "idle"
    /\ LET url == RequestUrl(c.endpoint, c.params)
           signaturePayload == SignaturePayload(c.method, url, c.body)
           isPublic == IsPublic(c.endpoint)
           e == IF isPublic THEN env ELSE DotenvConfig(env, dotenvFile)
           auth == IF isPublic
                   THEN [threw |-> FALSE, error |-> NoError, headers |-> <<>>]
                   ELSE BuildAuthHeaders(signaturePayload, e, now)
           headers == WithContentType(WithAuth(BaseHeaders, isPublic, auth.headers),
                                      c.method)
           locals == [url |-> url, signaturePayload |-> signaturePayload,
                      isPublic |-> isPublic,
                      headers |-> IF auth.threw THEN BaseHeaders ELSE headers]
       IN  /\ env' = e
           /\ frame' = locals
           /\ peer' = IF auth.threw
                      THEN [pc |-> "done", call |-> c, frame |-> locals,
                            sent |-> <<>>, response |-> NoResponse,
                            result |-> Rejected(auth.error)]
                      ELSE [pc |-> "awaiting", call |-> c, frame |-> locals,
                            sent |-> <<FetchRequest(url, c.method, headers, c.body)>>,
                            response |-> NoResponse, result |-> Pending]
    /\ UNCHANGED <<dotenvFile, now, pc, call, sent, response, result,
                   signIn, signOut, apiConfig, configOut, tool, server>>
\* the second invocation of fetchFromFutuur, up to its await
PeerFetchFromFutuur(c) ==
    /\ peer.pc = "idle"
    /\ LET url == RequestUrl(c.endpoint, c.params)
           signaturePayload == SignaturePayload(c.method, url, c.body)
           isPublic == IsPublic(c.endpoint)
           e == IF isPublic THEN env ELSE DotenvConfig(env, dotenvFile)
           auth == IF isPublic
                   THEN [threw |-> FALSE, error |-> NoError, headers |-> <<>>]
                   ELSE BuildAuthHeaders(signaturePayload, e, now)
           headers == WithContentType(WithAuth(BaseHeaders, isPublic, auth.headers),
                                      c.method)
       IN  /\ env' = e
           /\ peer' = IF auth.threw
                      THEN [pc |-> "done", call |-> c,
                            frame |-> [url |-> url, signaturePayload |-> signaturePayload,
                                       isPublic |-> isPublic, headers |-> BaseHeaders],
                            sent |-> <<>>, response |-> NoResponse,
                            result |-> Rejected(auth.error)]
                      ELSE [pc |-> "awaiting", call |-> c,
                            frame |-> [url |-> url, signaturePayload |-> signaturePayload,
                                       isPublic |-> isPublic, headers |-> headers],
                            sent |-> <<FetchRequest(url, c.method, headers, c.body)>>,
                            response |-> NoResponse, result |-> Pending]
    /\ UNCHANGED <<dotenvFile, now, pc, call, frame, sent, response, result,
                   signIn, signOut, apiConfig, configOut, tool, server>>

PeerFetchSettles(r) ==
    /\ peer.pc = "awaiting"
    /\ peer' = [peer EXCEPT !.response = r, !.pc = "settled"]
    /\ UNCHANGED <<env, dotenvFile, now, pc, call, frame, sent, response, result,
                   signIn, signOut, apiConfig, configOut, tool, server>>

PeerAfterFetch ==
    /\ peer.pc = "settled"
    /\ peer' = [peer EXCEPT
                  !.result = Settle(peer.response, peer.call.endpoint, peer.frame.url,
                                    peer.call.method, peer.frame.headers),
                  !.pc = "done"]
    /\ UNCHANGED <<env, dotenvFile, now, pc, call, frame, sent, response, result,
                   signIn, signOut, apiConfig, configOut, tool, server>>

PeerReturn ==
    /\ peer.pc = "done"
    /\ peer' = NoPeer
    /\ UNCHANGED <<env, dotenvFile, now, pc, call, frame, sent, response, result,
                   signIn, signOut, apiConfig, configOut, tool, server>>

\* other code of the process assigns the keys in process.env while no
\* invocation is running (both may be awaiting)
ReplaceKeys(e) ==
    /\ env' = e
    /\ env' # env
    /\ UNCHANGED <<dotenvFile, now, pc, call, frame, sent, response, result,
                   signIn, signOut, apiConfig, configOut, peer, tool, server>>

ConcNext ==
    \/ \E c \in ConcCalls : FetchFromFutuur(c)
    \/ \E r \in ConcResponses : FetchSettles(r)
    \/ AfterFetch
    \/ Return
    \/ \E c \in ConcCalls : PeerFetchFromFutuur(c)
    \/ \E r \in ConcResponses : PeerFetchSettles(r)
    \/ PeerAfterFetch
    \/ PeerReturn
    \/ \E e \in ConcEnvs : ReplaceKeys(e)
    \/ Tick

SpecConc == ConcInit /\ [][ConcNext]_vars

-----------------------------------------------------------------------------
(* The module-level apiConfig and its accessors, next to buildAuthHeaders.  *)

PUBLIC_KEY == <<"p","u","b","l","i","c","K","e","y">>
PRIVATE_KEY == <<"p","r","i","v","a","t","e","K","e","y">>

\* process.env.NAME as a JavaScript value
EnvValue(x) == IF x.def THEN Str(x.val) ELSE Undefined

\* o[k]
Prop(o, k) == IF HasKey(o, k) THEN Get(o, k) ELSE Undefined

\* !!v for a string or undefined
Truthy(v) == v.t = "string" /\ v.s # <<>>

\* getCurrentConfig(): apiConfig is loaded from the environment while one of
\* its keys is missing, and returned as it is once both are set
GetCurrentConfig(cfg, e, file) ==
    IF ~Truthy(Prop(cfg, PUBLIC_KEY)) \/ ~Truthy(Prop(cfg, PRIVATE_KEY))
    THEN LET loaded == DotenvConfig(e, file)
         IN  [env |-> loaded,
              apiConfig |-> FromEntries(<< <<PUBLIC_KEY, EnvValue(loaded.pub)>>,
                                           <<PRIVATE_KEY, EnvValue(loaded.priv)>> >>)]
    ELSE [env |-> e, apiConfig |-> cfg]

\* the arguments of configureFutuurApi: nothing, the public key, both keys
StoreConfigs ==
    { <<>>,
      FromEntries(<< <<PUBLIC_KEY, Str(<<"p","u","b","C">>)>> >>),
      FromEntries(<< <<PUBLIC_KEY, Str(<<"p","u","b","C">>)>>, <<PRIVATE_KEY, Str(<<"s","e","c","C">>)>> >>) }

\* what process.env is assigned after the start
StoreEnvs ==
    { [pub |-> Val(<<"p","u","b","A">>), priv |-> Val(<<"s","e","c","A">>)],
      [pub |-> Val(<<"p","u","b","D">>), priv |-> Val(<<"s","e","c","D">>)],
      [pub |-> Absent, priv |-> Val(<<"s","e","c","A">>)] }

StorePayloads == { <<>>, OneObject }

StoreInit ==
    /\ dotenvFile \in DotenvFiles
    /\ \E e \in Envs : env = DotenvConfig(e, dotenvFile)
    /\ now = 77500
    /\ pc = "idle"
    /\ call = NoCall
    /\ frame = NoFrame
    /\ sent = <<>>
    /\ response = NoResponse
    /\ result = Pending
    /\ signIn = <<>>
    /\ signOut = NotCalled
    /\ apiConfig = <<>>
    /\ configOut = NoConfig
    /\ peer = NoPeer
    /\ tool = NoTool
    /\ server = NoServer

\* getApiConfig(): a copy of what getCurrentConfig() returns
GetApiConfig ==
    /\ LET current == GetCurrentConfig(apiConfig, env, dotenvFile)
       IN  /\ env' = current.env
           /\ apiConfig' = current.apiConfig
           /\ configOut' = [called |-> TRUE, config |-> Spread(<<>>, current.apiConfig)]
    /\ UNCHANGED <<dotenvFile, now, pc, call, frame, sent, response, result,
                   signIn, signOut, peer, tool, server>>

\* configureFutuurApi(config); what earlier calls returned is out of date
ConfigureFutuurApi(config) ==
    /\ apiConfig' = Spread(apiConfig, config)
    /\ configOut' = NoConfig
    /\ signIn' = <<>>
    /\ signOut' = NotCalled
    /\ UNCHANGED <<env, dotenvFile, now, pc, call, frame, sent, response, result, peer, tool, server>>

\* buildAuthHeaders(payload), any number of times
BuildAuthHeadersAgain(payload) ==
    /\ LET e == DotenvConfig(env, dotenvFile)
           auth == BuildAuthHeaders(payload, e, now)
       IN  /\ env' = e
           /\ signIn' = payload
           /\ signOut' = [state |-> IF auth.threw THEN "threw" ELSE "returned",
                          error |-> auth.error,
                          headers |-> auth.headers]
    /\ UNCHANGED <<dotenvFile, now, pc, call, frame, sent, response, result,
                   apiConfig, configOut, peer, tool, server>>

\* the keys in process.env are assigned by other code of the process
SetEnvKeys(e) ==
    /\ env' = e
    /\ env' # env
    /\ configOut' = NoConfig
    /\ signIn' = <<>>
    /\ signOut' = NotCalled
    /\ UNCHANGED <<dotenvFile, now, pc, call, frame, sent, response, result,
                   apiConfig, peer, tool, server>>

\* the .env file is written while the process runs
WriteDotenvFile(file) ==
    /\ dotenvFile' = file
    /\ dotenvFile' # dotenvFile
    /\ configOut' = NoConfig
    /\ signIn' = <<>>
    /\ signOut' = NotCalled
    /\ UNCHANGED <<env, now, pc, call, frame, sent, response, result, apiConfig, peer, tool, server>>

StoreNext ==
    \/ GetApiConfig
    \/ \E config \in StoreConfigs : ConfigureFutuurApi(config)
    \/ \E payload \in StorePayloads : BuildAuthHeadersAgain(payload)
    \/ \E e \in StoreEnvs : SetEnvKeys(e)
    \/ \E file \in DotenvFiles : WriteDotenvFile(file)

SpecStore == StoreInit /\ [][StoreNext]_vars

-----------------------------------------------------------------------------
(* place_bet (tools/PlaceBetTool.ts): a tool awaits fetchFromFutuur calls   *)
(* one after the other; each call runs the invocation modelled above.       *)

\* one element per UTF-16 code unit; the warning sign and its variation
\* selector are spelled by their code points
WarningSign == <<"U+26A0", "U+FE0F">>

JsonNull == [kind |-> "null", hasResults |-> FALSE, results |-> <<>>]

\* a parsed { results: [...] } answer of events/; results may be missing
EventsBody(hasResults, results) ==
    [kind |-> "object", hasResults |-> hasResults, results |-> results]

\* one event of the answer: its markets (ids), when it has any, and its
\* order_book_enabled: "true", "false" or "absent"
Event(hasMarkets, markets, orderBook) ==
    [hasMarkets |-> hasMarkets, markets |-> markets, order_book_enabled |-> orderBook]

\* e.markets?.some((m) => m.id === marketId)
HasMarket(e, marketId) ==
    e.hasMarkets /\ \E j \in 1..Len(e.markets) : e.markets[j] = marketId

\* eventsResponse.results?.find(...): the index of the first event that
\* has the market, 0 when find returns undefined
FindEvent(body, marketId) ==
    IF body.hasResults /\ \E i \in 1..Len(body.results) : HasMarket(body.results[i], marketId)
    THEN CHOOSE i \in 1..Len(body.results) :
            /\ HasMarket(body.results[i], marketId)
            /\ \A j \in 1..(i - 1) : ~HasMarket(body.results[j], marketId)
    ELSE 0

\* SIMULATION_PAYLOAD_SOURCE_MARKER
TOOL_SOURCE == <<"t","o","o","l","_","s","o","u","r","c","e">>
BET_LOCATION == <<"b","e","t","_","l","o","c","a","t","i","o","n">>
SourceMarker == <<"g","e","t","_","b","e","t","_","s","i","m","u","l","a","t","i","o","n">>

\* const { tool_source, ...apiRequestBody } = payload
WithoutToolSource(payload) ==
    FromEntries(SelectSeq(Entries(payload), LAMBDA e : e[1] # TOOL_SOURCE))

\* if (input.bet_location) apiRequestBody.bet_location = input.bet_location
WithBetLocation(apiRequestBody, betLocation) ==
    IF Truthy(betLocation) THEN ObjSet(apiRequestBody, BET_LOCATION, betLocation)
    ELSE apiRequestBody

\* createLimitOrder(params)
CreateLimitOrder(params) == CallArgs(<<"o","r","d","e","r","s","/">>, <<>>, POST, Body(params))

\* fetchFromFutuur("events/", { params: { limit: 100 }, method: "GET" })
EventsLookup == CallArgs(<<"e","v","e","n","t","s","/">>, FromEntries(<< <<<<"l","i","m","i","t">>, Num(100)>> >>), GET, NoBody)

RECURSIVE PrettyFields(_)
PrettyFields(o) ==
    IF o = <<>> THEN <<>>
    ELSE <<"\n", " ", " ">> \o JsonQuote(Head(o).k) \o <<":", " ">> \o JsonValue(Head(o).v)
         \o (IF Len(o) > 1 THEN <<",">> ELSE <<>>) \o PrettyFields(Tail(o))

\* JSON.stringify(data, null, 2) for an object of scalars
JsonPretty(o) ==
    IF Defined(o) = <<>> THEN <<"{","}">>
    ELSE <<"{">> \o PrettyFields(Defined(o)) \o <<"\n", "}">>

\* JSON.parse(errorMessage) succeeds only on a JSON text; the messages of
\* fetchFromFutuur and of the runtime are none
IsJsonText(msg) ==
    /\ msg # <<>>
    /\ \/ Head(msg) \in {"{", "[", "\""}
       \/ IsDigit(Head(msg))
       \/ msg \in {<<"t","r","u","e">>, <<"f","a","l","s","e">>, <<"n","u","l","l">>}

\* the text of the outer catch
PlaceOrderError(error) == <<"E","r","r","o","r"," ","p","l","a","c","i","n","g"," ","o","r","d","e","r",":"," ">> \o error.message

EventNotFoundText == <<"E","r","r","o","r",":"," ","C","o","u","l","d"," ","n","o","t"," ","f","i","n","d"," ","t","h","e"," ","e","v","e","n","t"," ","f","o","r"," ","t","h","e"," ","s","p","e","c","i","f","i","e","d"," ","m","a","r","k","e","t"," ","I","D",".">>
CannotVerifyText == <<"E","r","r","o","r",":"," ","U","n","a","b","l","e"," ","t","o"," ","v","e","r","i","f","y"," ","e","v","e","n","t"," ","d","e","t","a","i","l","s"," ","b","e","f","o","r","e"," ","p","l","a","c","i","n","g"," ","o","r","d","e","r","."," ","P","l","e","a","s","e"," ","t","r","y"," ","a","g","a","i","n"," ","l","a","t","e","r",".">>
OrderBookNotEnabledText ==
    WarningSign \o <<" ","*","*","O","r","d","e","r"," ","B","o","o","k"," ","N","o","t"," ","E","n","a","b","l","e","d","*","*">> \o <<"\n", "\n">>
    \o <<"T","h","i","s"," ","e","v","e","n","t"," ","d","o","e","s"," ","n","o","t"," ","s","u","p","p","o","r","t"," ","o","r","d","e","r"," ","b","o","o","k"," ","t","r","a","d","i","n","g","."," ","O","r","d","e","r"," ","b","o","o","k"," ","m","u","s","t"," ","b","e"," ","e","n","a","b","l","e","d"," ","f","o","r"," ","l","i","m","i","t"," ","o","r","d","e","r","s",".">>
    \o <<"\n", "\n">>
    \o <<"P","l","e","a","s","e"," ","t","r","y"," ","b","e","t","t","i","n","g"," ","o","n"," ","e","v","e","n","t","s"," ","t","h","a","t"," ","h","a","v","e"," ","o","r","d","e","r"," ","b","o","o","k"," ","t","r","a","d","i","n","g"," ","e","n","a","b","l","e","d",".">>

Returned(text) == [state |-> "returned", text |-> text]
NoOutput == [state |-> "none", text |-> <<>>]

\* what place_bet is called with: the payload of a simulation and, maybe, a
\* bet_location
PlaceBetPayload(market) ==
    FromEntries(<< <<<<"m","a","r","k","e","t">>, Num(market)>>, <<<<"s","i","d","e">>, Str(<<"b","i","d">>)>>,
                   <<<<"s","h","a","r","e","s">>, Num(10)>>, <<TOOL_SOURCE, Str(SourceMarker)>> >>)

PlaceBetInputs ==
    { [confirmed_simulation_payload |-> PlaceBetPayload(m), bet_location |-> b] :
        m \in {7, 9}, b \in {Undefined, Str(<<>>), Str(<<"W","e","b","A","p","p","V","2">>)} }

\* what events/ answers
EventsResponses ==
    { HttpResponse(200, <<"O","K">>, TRUE, EventsBody(TRUE, <<Event(TRUE, <<7>>, "true")>>)),
      HttpResponse(200, <<"O","K">>, TRUE,
                   EventsBody(TRUE, <<Event(TRUE, <<8>>, "true"), Event(TRUE, <<7, 9>>, "false"),
                                      Event(TRUE, <<9>>, "true")>>)),
      HttpResponse(200, <<"O","K">>, TRUE,
                   EventsBody(TRUE, <<Event(FALSE, <<>>, "true"), Event(TRUE, <<7>>, "absent")>>)),
      HttpResponse(200, <<"O","K">>, TRUE, EventsBody(FALSE, <<>>)),
      HttpResponse(200, <<"O","K">>, TRUE, JsonNull),
      HttpResponse(200, <<"O","K">>, FALSE, <<"<","h","t","m","l",">">>),
      HttpResponse(500, <<"I","n","t","e","r","n","a","l"," ","S","e","r","v","e","r"," ","E","r","r","o","r">>, FALSE, <<>>),
      NetworkFailure }

\* what orders/ answers
OrdersResponses ==
    { HttpResponse(201, <<"C","r","e","a","t","e","d">>, TRUE, FromEntries(<< <<<<"i","d">>, Num(5)>>, <<<<"s","t","a","t","u","s">>, Str(<<"o","p","e","n">>)>> >>)),
      HttpResponse(400, <<"B","a","d"," ","R","e","q","u","e","s","t">>, TRUE, FromEntries(<< <<<<"d","e","t","a","i","l">>, Str(<<"x">>)>> >>)),
      NetworkFailure }

PlaceBetEnvs ==
    { [pub |-> Val(<<"p","u","b","A">>), priv |-> Val(<<"s","e","c","A">>)],
      [pub |-> Absent, priv |-> Absent] }

PlaceBetInit ==
    /\ dotenvFile = [pub |-> Absent, priv |-> Absent]
    /\ env \in PlaceBetEnvs
    /\ now = 77500
    /\ pc = "idle"
    /\ call = NoCall
    /\ frame = NoFrame
    /\ sent = <<>>
    /\ response = NoResponse
    /\ result = Pending
    /\ signIn = <<>>
    /\ signOut = NotCalled
    /\ apiConfig = <<>>
    /\ configOut = NoConfig
    /\ peer = NoPeer
    /\ tool = NoTool
    /\ server = NoServer

\* execute(input) up to its first await: the lookup of the events
PlaceBetExecute(input) ==
    /\ tool.pc = "idle"
    /\ tool' = [pc |-> "fetching", step |-> "events", input |-> input,
                request |-> EventsLookup, log |-> <<>>, output |-> NoOutput]
    /\ UNCHANGED <<env, dotenvFile, now, pc, call, frame, sent, response, result,
                   signIn, signOut, apiConfig, configOut, peer, server>>

\* the tool's call of fetchFromFutuur
ToolFetch ==
    /\ tool.pc = "fetching"
    /\ FetchFromFutuur(tool.request)

\* the remote answers the call that is in flight
PlaceBetAnswer ==
    /\ tool.pc = "fetching"
    /\ \E r \in (IF tool.step = "events" THEN EventsResponses ELSE OrdersResponses) :
          FetchSettles(r)

\* the tool's await has its outcome: the fetchFromFutuur invocation is over
\* and the outcome is kept with the request
Awaited(t) ==
    [t EXCEPT !.log = Append(t.log, [sent |-> sent, result |-> result])]

\* mutant: the order posted whatever order_book_enabled says
AfterEvents_OrderBookUnchecked(t, outcome) ==
    LET marketId == Get(t.input.confirmed_simulation_payload, <<"m","a","r","k","e","t">>).n
        found == IF outcome.value.kind = "object"
                 THEN FindEvent(outcome.value, marketId) ELSE 0
        apiRequestBody == WithBetLocation(
                              WithoutToolSource(t.input.confirmed_simulation_payload),
                              t.input.bet_location)
    IN  IF outcome.state = "rejected" \/ outcome.value.kind = "null"
        THEN [t EXCEPT !.pc = "returned", !.output = Returned(CannotVerifyText)]
        ELSE IF found = 0
        THEN [t EXCEPT !.pc = "returned", !.output = Returned(EventNotFoundText)]
        ELSE [t EXCEPT !.step = "order", !.request = CreateLimitOrder(apiRequestBody)]
\* execute(input) from the await of the events on: an error text, or the
\* order is posted
AfterEvents(t, outcome) ==
    LET marketId == Get(t.input.confirmed_simulation_payload, <<"m","a","r","k","e","t">>).n
        found == IF outcome.value.kind = "object"
                 THEN FindEvent(outcome.value, marketId) ELSE 0
        eventData == outcome.value.results[found]
        apiRequestBody == WithBetLocation(
                              WithoutToolSource(t.input.confirmed_simulation_payload),
                              t.input.bet_location)
    IN  IF outcome.state = "rejected" \/ outcome.value.kind = "null"
        THEN [t EXCEPT !.pc = "returned", !.output = Returned(CannotVerifyText)]
        ELSE IF found = 0
        THEN [t EXCEPT !.pc = "returned", !.output = Returned(EventNotFoundText)]
        ELSE IF eventData.order_book_enabled # "true"
        THEN [t EXCEPT !.pc = "returned", !.output = Returned(OrderBookNotEnabledText)]
        ELSE [t EXCEPT !.step = "order", !.request = CreateLimitOrder(apiRequestBody)]

\* execute(input) from the await of createLimitOrder on
AfterOrder(t, outcome) ==
    IF outcome.state = "rejected"
    THEN [t EXCEPT !.pc = "returned",
                   !.output = Returned(IF IsJsonText(outcome.error.message)
                                       THEN <<"E","r","r","o","r"," ","p","l","a","c","i","n","g"," ","o","r","d","e","r",":"," ">>
                                       ELSE PlaceOrderError(outcome.error))]
    ELSE [t EXCEPT !.pc = "returned", !.output = Returned(JsonPretty(outcome.value))]

PlaceBetResume ==
    /\ tool.pc = "fetching"
    /\ pc = "done"
    /\ tool' = IF tool.step = "events" THEN AfterEvents(Awaited(tool), result)
               ELSE AfterOrder(Awaited(tool), result)
    /\ pc' = "idle"
    /\ call' = NoCall
    /\ frame' = NoFrame
    /\ sent' = <<>>
    /\ response' = NoResponse
    /\ result' = Pending
    /\ UNCHANGED <<env, dotenvFile, now, signIn, signOut, apiConfig, configOut, peer, server>>

\* the framework has the tool's output; the next invocation may start
ToolReturn ==
    /\ tool.pc = "returned"
    /\ tool' = NoTool
    /\ UNCHANGED <<env, dotenvFile, now, pc, call, frame, sent, response, result,
                   signIn, signOut, apiConfig, configOut, peer, server>>

PlaceBetNext ==
    \/ \E input \in PlaceBetInputs : PlaceBetExecute(input)
    \/ ToolFetch
    \/ PlaceBetAnswer
    \/ AfterFetch
    \/ PlaceBetResume
    \/ ToolReturn

SpecPlaceBet == PlaceBetInit /\ [][PlaceBetNext]_vars

-----------------------------------------------------------------------------
(* get_markets (tools/MarketsTool.ts): the tool calls fetch() itself, on    *)
(* the public markets listing.                                              *)

\* Boolean.prototype.toString
BoolToString(b) == IF b THEN <<"t","r","u","e">> ELSE <<"f","a","l","s","e">>

PLAY_MONEY == <<"p","l","a","y","_","m","o","n","e","y">>
REAL_MONEY == <<"r","e","a","l","_","m","o","n","e","y">>
ALL_MODES == <<"a","l","l">>

\* a parsed listing: results (the markets, each with its title only) and
\* pagination.total, either of which may be missing
MarketsBody(hasResults, results, hasPagination, total) ==
    [kind |-> "object", hasResults |-> hasResults, results |-> results,
     hasPagination |-> hasPagination, total |-> total]

\* the query of one listing request, in the order of the appends
MarketsQuery(parsedInput, currencyMode) ==
    (IF parsedInput.categories.t = "array" /\ Len(parsedInput.categories.a) > 0
     THEN [i \in 1..Len(parsedInput.categories.a) |->
              <<<<"c","a","t","e","g","o","r","i","e","s">>, ToStr(parsedInput.categories.a[i])>>]
     ELSE <<>>)
    \o (IF currencyMode # <<>> THEN << <<<<"c","u","r","r","e","n","c","y","_","m","o","d","e">>, currencyMode>> >> ELSE <<>>)
    \o << <<<<"h","i","d","e","_","m","y","_","b","e","t","s">>, BoolToString(parsedInput.hide_my_bets)>> >>
    \o (IF parsedInput.limit # Undefined THEN << <<<<"l","i","m","i","t">>, ToStr(parsedInput.limit)>> >> ELSE <<>>)
    \o << <<<<"l","i","v","e">>, BoolToString(parsedInput.live)>> >>
    \o (IF parsedInput.offset # Undefined THEN << <<<<"o","f","f","s","e","t">>, ToStr(parsedInput.offset)>> >> ELSE <<>>)
    \o << <<<<"o","n","l","y","_","m","a","r","k","e","t","s","_","i","_","f","o","l","l","o","w">>, BoolToString(parsedInput.only_markets_i_follow)>> >>
    \o (IF Truthy(parsedInput.ordering) THEN << <<<<"o","r","d","e","r","i","n","g">>, parsedInput.ordering.s>> >> ELSE <<>>)
    \o << <<<<"r","e","s","o","l","v","e","d","_","o","n","l","y">>, BoolToString(parsedInput.resolved_only)>> >>
    \o (IF Truthy(parsedInput.search) THEN << <<<<"s","e","a","r","c","h">>, parsedInput.search.s>> >> ELSE <<>>)
    \o (IF Truthy(parsedInput.tag) THEN << <<<<"t","a","g">>, parsedInput.tag.s>> >> ELSE <<>>)
    \o (IF parsedInput.status # Undefined THEN << <<<<"s","t","a","t","u","s">>, parsedInput.status.s>> >> ELSE <<>>)

MarketsUserAgent == <<"M","o","z","i","l","l","a","/","5",".","0"," ","(","c","o","m","p","a","t","i","b","l","e",";"," ","M","y","S","e","r","v","e","r","B","o","t","/","1",".","0",";"," ","+","h","t","t","p","s",":","/","/","e","x","a","m","p","l","e",".","c","o","m",")">>

\* fetch(url, { headers: { "User-Agent": ... } }) of fetchMarkets
MarketsRequest(parsedInput, currencyMode) ==
    [url |-> <<"h","t","t","p","s",":","/","/","a","p","i",".","f","u","t","u","u","r",".","c","o","m","/","a","p","i","/","v","1","/","m","a","r","k","e","t","s","?">>
             \o SerializeParams(MarketsQuery(parsedInput, currencyMode)),
     method |-> GET,
     headers |-> FromEntries(<< <<<<"U","s","e","r","-","A","g","e","n","t">>, Str(MarketsUserAgent)>> >>),
     body |-> [present |-> FALSE, text |-> <<>>]]

\* the Error thrown by fetchMarkets on a response that is not ok
MarketsApiError(currencyMode, resp) ==
    [name |-> "Error",
     message |-> <<"A","P","I"," ","r","e","q","u","e","s","t"," ","f","a","i","l","e","d"," ","f","o","r"," ","c","u","r","r","e","n","c","y","M","o","d","e"," ","'">>
                 \o (IF currencyMode # <<>> THEN currencyMode ELSE <<"d","e","f","a","u","l","t">>)
                 \o <<"'"," ","w","i","t","h"," ","s","t","a","t","u","s"," ">> \o ToDecimal(resp.status) \o <<":"," ">>
                 \o (IF resp.json THEN <<>> ELSE resp.body)]

\* how one fetchMarkets call settles
FetchMarketsSettle(currencyMode, resp) ==
    IF resp.kind = "network" THEN Rejected(FetchFailed)
    ELSE IF ~Ok(resp) THEN Rejected(MarketsApiError(currencyMode, resp))
    ELSE ResponseJson(resp)

RECURSIVE FormatMarkets(_, _)
\* the forEach of formatMarketData over markets that have a title only
FormatMarkets(results, index) ==
    IF index > Len(results) THEN <<>>
    ELSE <<"#","#"," ">> \o ToDecimal(index) \o <<"."," ">> \o results[index].title \o <<"\n", "\n">>
         \o <<"*","*","T","r","a","d","i","n","g"," ","V","o","l","u","m","e",":","*","*">> \o <<"\n">> \o <<"\n">>
         \o <<"*","*","B","e","t","t","i","n","g"," ","e","n","d","s",":","*","*"," ","N","o"," ","e","n","d"," ","d","a","t","e"," ","s","p","e","c","i","f","i","e","d">> \o <<"\n", "\n">>
         \o (IF index < Len(results) THEN <<"-","-","-">> \o <<"\n", "\n">> ELSE <<>>)
         \o FormatMarkets(results, index + 1)

\* formatMarketData(marketData)
FormatMarketData(marketData) ==
    IF marketData.hasResults /\ Len(marketData.results) > 0
    THEN FormatMarkets(marketData.results, 1)
    ELSE <<"N","o"," ","m","a","r","k","e","t","s"," ","f","o","u","n","d"," ","m","a","t","c","h","i","n","g"," ","y","o","u","r"," ","c","r","i","t","e","r","i","a",".">> \o <<"\n">>

InvalidatedNote == <<"P","a","g","i","n","a","t","i","o","n"," ","f","o","r"," ","c","o","m","b","i","n","e","d"," ","r","e","s","u","l","t","s",";"," ","n","e","x","t","/","p","r","e","v","i","o","u","s"," ","l","i","n","k","s"," ","a","r","e"," ","i","n","v","a","l","i","d","a","t","e","d",".">>

\* String(error)
ErrorToString(error) ==
    (CASE error.name = "TypeError" -> <<"T","y","p","e","E","r","r","o","r">>
       [] error.name = "SyntaxError" -> <<"S","y","n","t","a","x","E","r","r","o","r">>
       [] OTHER -> <<"E","r","r","o","r">>) \o <<":"," ">> \o error.message

MarketsErrorText(error) == <<"E","r","r","o","r"," ","f","e","t","c","h","i","n","g"," ","m","a","r","k","e","t","s",":"," ">> \o ErrorToString(error)

NoData == [kind |-> "none"]

\* what the tool returns: an error text, or the listing object itself
MarketsOutput(text, data) == [state |-> "returned", text |-> text, data |-> data]

\* reading or writing a property of null
NullAccess(verb, gerund, prop) ==
    [name |-> "TypeError",
     message |-> <<"C","a","n","n","o","t"," ">> \o verb \o <<" ","p","r","o","p","e","r","t","i","e","s"," ","o","f"," ","n","u","l","l"," ","(">> \o gerund \o <<" ","'">> \o prop \o <<"'",")">>]

\* the listing answered for currency_mode "all": the results and the
\* pagination of the play-money listing, next and previous cleared
CombinedData(playMoneyData) ==
    [kind |-> "object",
     hasResults |-> playMoneyData.hasResults, results |-> playMoneyData.results,
     hasPagination |-> TRUE,
     hasTotal |-> playMoneyData.hasPagination, total |-> playMoneyData.total,
     next |-> "null", previous |-> "null", note |-> InvalidatedNote,
     custom_formatted_response |-> FormatMarketData(playMoneyData)]

\* the listing answered for one mode: the parsed answer with its rendering
SingleData(data) ==
    [kind |-> "object",
     hasResults |-> data.hasResults, results |-> data.results,
     hasPagination |-> data.hasPagination,
     hasTotal |-> data.hasPagination, total |-> data.total,
     next |-> "kept", previous |-> "kept", note |-> <<>>,
     custom_formatted_response |-> FormatMarketData(data)]

\* what execute is called with: the input the schema has validated, its
\* defaults filled in
MarketsInputs ==
    { [categories |-> c, currency_mode |-> m, hide_my_bets |-> FALSE, limit |-> l,
       live |-> FALSE, offset |-> Undefined, only_markets_i_follow |-> FALSE,
       ordering |-> Str(<<>>), resolved_only |-> FALSE, search |-> s,
       tag |-> Undefined, status |-> Undefined] :
        c \in {Undefined, Arr(<<Num(11), Num(22)>>)},
        m \in {ALL_MODES, PLAY_MONEY, REAL_MONEY},
        l \in {Undefined, Num(5)},
        s \in {Undefined, Str(<<"b"," ","t">>)} }

Market(title) == [title |-> title]

\* what the listing answers
MarketsResponses ==
    { HttpResponse(200, <<"O","K">>, TRUE,
                   MarketsBody(TRUE, <<Market(<<"A","?">>), Market(<<"B","?">>)>>, TRUE, 2)),
      HttpResponse(200, <<"O","K">>, TRUE, MarketsBody(TRUE, <<Market(<<"C","?">>)>>, FALSE, 0)),
      HttpResponse(200, <<"O","K">>, TRUE, MarketsBody(TRUE, <<>>, TRUE, 0)),
      HttpResponse(200, <<"O","K">>, TRUE, MarketsBody(FALSE, <<>>, FALSE, 0)),
      HttpResponse(200, <<"O","K">>, TRUE, JsonNull),
      HttpResponse(200, <<"O","K">>, FALSE, <<"<","h","t","m","l",">">>),
      HttpResponse(503, <<"S","e","r","v","i","c","e"," ","U","n","a","v","a","i","l","a","b","l","e">>, FALSE, <<"b","u","s","y">>),
      NetworkFailure }

\* this.parseCategories(input.categories) on a validated input: undefined
\* stays undefined, an array of numbers is mapped to itself
ParseCategories(val) ==
    IF val = Undefined THEN Undefined
    ELSE Arr([i \in 1..Len(val.a) |-> val.a[i]])

\* the mode of the only fetchMarkets call of execute
FetchedMode(parsedInput) ==
    IF parsedInput.currency_mode = ALL_MODES THEN PLAY_MONEY
    ELSE IF parsedInput.currency_mode \in {PLAY_MONEY, REAL_MONEY}
    THEN parsedInput.currency_mode
    ELSE PLAY_MONEY

\* execute(input) up to the await in fetchMarkets: the request goes out
MarketsExecute(input) ==
    /\ tool.pc = "idle"
    /\ LET parsedInput == [input EXCEPT !.categories = ParseCategories(input.categories)]
       IN  /\ tool' = [pc |-> "fetching", input |-> parsedInput,
                       mode |-> FetchedMode(parsedInput), log |-> <<>>,
                       output |-> NoOutput]
           /\ sent' = <<MarketsRequest(parsedInput, FetchedMode(parsedInput))>>
    /\ UNCHANGED <<env, dotenvFile, now, pc, call, frame, response, result,
                   signIn, signOut, apiConfig, configOut, peer, server>>

\* the remote answers the request in flight, or the connection fails
MarketsAnswer(r) ==
    /\ tool.pc = "fetching"
    /\ response = NoResponse
    /\ response' = r
    /\ UNCHANGED <<env, dotenvFile, now, pc, call, frame, sent, result,
                   signIn, signOut, apiConfig, configOut, peer, tool, server>>

\* the try block from the await on, and the catch
MarketsAfterFetch(t, outcome) ==
    IF outcome.state = "rejected"
    THEN MarketsOutput(MarketsErrorText(outcome.error), NoData)
    ELSE IF outcome.value.kind = "null"
    THEN MarketsOutput(MarketsErrorText(
             IF t.input.currency_mode = ALL_MODES THEN NullAccess(<<"r","e","a","d">>, <<"r","e","a","d","i","n","g">>, <<"r","e","s","u","l","t","s">>)
             ELSE NullAccess(<<"s","e","t">>, <<"s","e","t","t","i","n","g">>, <<"c","u","s","t","o","m","_","f","o","r","m","a","t","t","e","d","_","r","e","s","p","o","n","s","e">>)), NoData)
    ELSE IF t.input.currency_mode = ALL_MODES
    THEN MarketsOutput(<<>>, CombinedData(outcome.value))
    ELSE MarketsOutput(<<>>, SingleData(outcome.value))

\* execute(input) from the answer to its return
MarketsResume ==
    /\ tool.pc = "fetching"
    /\ response # NoResponse
    /\ tool' = [tool EXCEPT
                  !.pc = "returned",
                  !.log = Append(tool.log, [sent |-> sent, response |-> response]),
                  !.output = MarketsAfterFetch(tool, FetchMarketsSettle(tool.mode, response))]
    /\ sent' = <<>>
    /\ response' = NoResponse
    /\ UNCHANGED <<env, dotenvFile, now, pc, call, frame, result,
                   signIn, signOut, apiConfig, configOut, peer, server>>

MarketsNext ==
    \/ \E input \in MarketsInputs : MarketsExecute(input)
    \/ \E r \in MarketsResponses : MarketsAnswer(r)
    \/ MarketsResume
    \/ ToolReturn

MarketsInit == PlaceBetInit

SpecMarkets == MarketsInit /\ [][MarketsNext]_vars

-----------------------------------------------------------------------------
(* get_bet_simulation (tools/SimulateBetTool.ts): the events lookup, the    *)
(* order book of the event, and the arithmetic of the simulated order.      *)

RECURSIVE Gcd(_, _)
Gcd(a, b) == IF b = 0 THEN a ELSE Gcd(b, a % b)

\* the numbers of the arithmetic: non-negative fractions in lowest terms,
\* whose denominators are powers of two so that the floating-point result
\* is the exact one, and the values that are no fraction
Fin(n, d) == [kind |-> "finite", num |-> n \div Gcd(n, d), den |-> d \div Gcd(n, d)]
Infinity == [kind |-> "Infinity", num |-> 0, den |-> 1]
NaN == [kind |-> "NaN", num |-> 0, den |-> 1]
NullNumber == [kind |-> "null", num |-> 0, den |-> 1]
NoNumber == [kind |-> "undefined", num |-> 0, den |-> 1]

\* a / b for finite a and b
Divide(a, b) ==
    IF b.num = 0 THEN (IF a.num = 0 THEN NaN ELSE Infinity)
    ELSE Fin(a.num * b.den, a.den * b.num)

\* a * b for finite a and b
Multiply(a, b) == Fin(a.num * b.num, a.den * b.den)

\* ToBoolean of a number, null or undefined
NumberTruthy(v) == v.kind = "Infinity" \/ (v.kind = "finite" /\ v.num # 0)

\* a || b
OrElse(a, b) == IF NumberTruthy(a) THEN a ELSE b

RECURSIVE FractionDigits(_, _)
\* the decimal digits of n / d < 1, which terminate
FractionDigits(n, d) ==
    IF n = 0 THEN <<>>
    ELSE <<Digits[((n * 10) \div d) + 1]>> \o FractionDigits((n * 10) % d, d)

\* JSON.stringify of a number or null: Infinity and NaN are written null
NumberJson(v) ==
    IF v.kind # "finite" THEN <<"n","u","l","l">>
    ELSE ToDecimal(v.num \div v.den)
         \o (IF v.num % v.den = 0 THEN <<>>
             ELSE <<".">> \o FractionDigits(v.num % v.den, v.den))

\* one event of the events answer, with its id
EventWithId(id, markets, orderBook) ==
    [id |-> id, hasMarkets |-> TRUE, markets |-> markets, order_book_enabled |-> orderBook]

\* a parsed order book: the ask levels (their prices), when it has any list
OrderBookBody(hasAsk, ask) == [kind |-> "object", hasAsk |-> hasAsk, ask |-> ask]

\* mutant: amount and shares given together taken as an amount
InputError_BothAccepted(input) ==
    IF input.amount = NoNumber /\ input.shares = NoNumber
    THEN <<"E","r","r","o","r",":"," ","E","i","t","h","e","r"," ","'","a","m","o","u","n","t","'"," ","o","r"," ","'","s","h","a","r","e","s","'"," ","m","u","s","t"," ","b","e"," ","p","r","o","v","i","d","e","d"," ","f","o","r"," ","t","h","e"," ","s","i","m","u","l","a","t","i","o","n",".">>
    ELSE <<>>
\* the custom validation at the head of execute: the text returned when
\* amount and shares are both missing or both given, none otherwise
InputError(input) ==
    IF input.amount = NoNumber /\ input.shares = NoNumber
    THEN <<"E","r","r","o","r",":"," ","E","i","t","h","e","r"," ","'","a","m","o","u","n","t","'"," ","o","r"," ","'","s","h","a","r","e","s","'"," ","m","u","s","t"," ","b","e"," ","p","r","o","v","i","d","e","d"," ","f","o","r"," ","t","h","e"," ","s","i","m","u","l","a","t","i","o","n",".">>
    ELSE IF input.amount # NoNumber /\ input.shares # NoNumber
    THEN <<"E","r","r","o","r",":"," ","P","l","e","a","s","e"," ","p","r","o","v","i","d","e"," ","e","i","t","h","e","r"," ","'","a","m","o","u","n","t","'"," ","o","r"," ","'","s","h","a","r","e","s","'"," ","f","o","r"," ","t","h","e"," ","s","i","m","u","l","a","t","i","o","n",","," ","n","o","t"," ","b","o","t","h",".">>
    ELSE <<>>

NoPricesText == <<"E","r","r","o","r",":"," ","N","o"," ","a","v","a","i","l","a","b","l","e"," ","p","r","i","c","e","s"," ","i","n"," ","t","h","e"," ","o","r","d","e","r"," ","b","o","o","k"," ","f","o","r"," ","t","h","i","s"," ","m","a","r","k","e","t","."," ","C","a","n","n","o","t"," ","s","i","m","u","l","a","t","e"," ","o","r","d","e","r",".">>

\* fetchFromFutuur(`events/${eventData.id}/order_book/`, { params, method: "GET" })
OrderBookLookup(eventData, input) ==
    CallArgs(<<"e","v","e","n","t","s","/">> \o ToDecimal(eventData.id) \o <<"/","o","r","d","e","r","_","b","o","o","k","/">>,
             FromEntries(<< <<<<"m","a","r","k","e","t">>, Num(input.market)>>,
                            <<<<"c","u","r","r","e","n","c","y","_","m","o","d","e">>, Str(input.currency_mode)>>,
                            <<<<"p","o","s","i","t","i","o","n">>, Str(input.position)>> >>),
             GET, NoBody)

\* bestPrice: the price of the first ask level, null when there is none
BestPrice(orderBook) ==
    IF orderBook.hasAsk /\ Len(orderBook.ask) > 0 THEN orderBook.ask[1] ELSE NullNumber

\* orderPrice: the given price, null included, or else the best price
OrderPrice(input, bestPrice) ==
    IF input.price # NoNumber THEN input.price ELSE bestPrice

\* priceToUse = orderPrice || bestPrice || 0
PriceToUse(orderPrice, bestPrice) == OrElse(OrElse(orderPrice, bestPrice), Fin(0, 1))

\* simulationData
SimulationData(input, orderPrice, bestPrice) ==
    [market |-> input.market,
     side |-> <<"b","i","d">>,
     position |-> input.position,
     price |-> orderPrice,
     shares |-> IF input.amount # NoNumber
                THEN Divide(input.amount, PriceToUse(orderPrice, bestPrice))
                ELSE input.shares,
     amount |-> IF input.amount # NoNumber THEN input.amount
                ELSE Multiply(input.shares, PriceToUse(orderPrice, bestPrice)),
     currency |-> input.currency,
     tool_source |-> SourceMarker]

\* JSON.stringify(simulationData, null, 2)
SimulationText(d) ==
    <<"{">>
    \o <<"\n">> \o <<" "," ","\"","m","a","r","k","e","t","\"",":"," ">> \o ToDecimal(d.market) \o <<",">>
    \o <<"\n">> \o <<" "," ","\"","s","i","d","e","\"",":"," ">> \o JsonQuote(d.side) \o <<",">>
    \o <<"\n">> \o <<" "," ","\"","p","o","s","i","t","i","o","n","\"",":"," ">> \o JsonQuote(d.position) \o <<",">>
    \o <<"\n">> \o <<" "," ","\"","p","r","i","c","e","\"",":"," ">> \o NumberJson(d.price) \o <<",">>
    \o <<"\n">> \o <<" "," ","\"","s","h","a","r","e","s","\"",":"," ">> \o NumberJson(d.shares) \o <<",">>
    \o <<"\n">> \o <<" "," ","\"","a","m","o","u","n","t","\"",":"," ">> \o NumberJson(d.amount) \o <<",">>
    \o <<"\n">> \o <<" "," ","\"","c","u","r","r","e","n","c","y","\"",":"," ">> \o JsonQuote(d.currency) \o <<",">>
    \o <<"\n">> \o <<" "," ","\"","t","o","o","l","_","s","o","u","r","c","e","\"",":"," ">> \o JsonQuote(d.tool_source)
    \o <<"\n", "}">>

\* what get_bet_simulation is called with, as the schema admits it: amount
\* and shares positive when given, price in 0..1, null or omitted
SimulateBetInputs ==
    { [market |-> m, currency |-> <<"O","O","M">>, currency_mode |-> PLAY_MONEY, position |-> <<"l">>,
       amount |-> a, shares |-> s, price |-> p] :
        m \in {7, 9},
        a \in {NoNumber, Fin(10, 1)},
        s \in {NoNumber, Fin(4, 1)},
        p \in {NoNumber, NullNumber, Fin(0, 1), Fin(1, 2), Fin(1, 1)} }

\* what events/ answers to the simulation
SimulateEventsResponses ==
    { HttpResponse(200, <<"O","K">>, TRUE, EventsBody(TRUE, <<EventWithId(3, <<7>>, "true")>>)),
      HttpResponse(200, <<"O","K">>, TRUE,
                   EventsBody(TRUE, <<EventWithId(4, <<8>>, "true"), EventWithId(5, <<9>>, "false")>>)),
      HttpResponse(200, <<"O","K">>, TRUE, JsonNull),
      NetworkFailure }

\* what the order book endpoint answers
OrderBookResponses ==
    { HttpResponse(200, <<"O","K">>, TRUE, OrderBookBody(TRUE, <<Fin(1, 4), Fin(1, 2)>>)),
      HttpResponse(200, <<"O","K">>, TRUE, OrderBookBody(TRUE, <<>>)),
      HttpResponse(200, <<"O","K">>, TRUE, OrderBookBody(FALSE, <<>>)),
      HttpResponse(200, <<"O","K">>, TRUE, JsonNull),
      HttpResponse(404, <<"N","o","t"," ","F","o","u","n","d">>, FALSE, <<>>),
      NetworkFailure }

\* execute(input) up to its first return or await
SimulateBetExecute(input) ==
    /\ tool.pc = "idle"
    /\ tool' = IF InputError(input) # <<>>
               THEN [pc |-> "returned", step |-> "input", input |-> input,
                     request |-> NoCall, log |-> <<>>,
                     output |-> Returned(InputError(input)), data |-> NoData]
               ELSE [pc |-> "fetching", step |-> "events", input |-> input,
                     request |-> EventsLookup, log |-> <<>>,
                     output |-> NoOutput, data |-> NoData]
    /\ UNCHANGED <<env, dotenvFile, now, pc, call, frame, sent, response, result,
                   signIn, signOut, apiConfig, configOut, peer, server>>

\* the remote answers the call that is in flight
SimulateBetAnswer ==
    /\ tool.pc = "fetching"
    /\ \E r \in (IF tool.step = "events" THEN SimulateEventsResponses ELSE OrderBookResponses) :
          FetchSettles(r)

\* execute(input) from the await of the events to the order book call
SimulateAfterEvents(t, outcome) ==
    LET found == IF outcome.value.kind = "object"
                 THEN FindEvent(outcome.value, t.input.market) ELSE 0
        eventData == outcome.value.results[found]
    IN  IF outcome.state = "rejected" \/ outcome.value.kind = "null"
        THEN [t EXCEPT !.pc = "returned", !.output = Returned(CannotVerifyText)]
        ELSE IF found = 0
        THEN [t EXCEPT !.pc = "returned", !.output = Returned(EventNotFoundText)]
        ELSE IF eventData.order_book_enabled # "true"
        THEN [t EXCEPT !.pc = "returned", !.output = Returned(OrderBookNotEnabledText)]
        ELSE [t EXCEPT !.step = "order_book", !.request = OrderBookLookup(eventData, t.input)]

\* execute(input) from the await of the order book to its return
SimulateAfterOrderBook(t, outcome) ==
    LET bestPrice == BestPrice(outcome.value)
        orderPrice == OrderPrice(t.input, bestPrice)
    IN  IF outcome.state = "rejected"
        THEN [t EXCEPT !.pc = "returned",
                       !.output = Returned(<<"E","r","r","o","r"," ","f","e","t","c","h","i","n","g"," ","o","r","d","e","r"," ","b","o","o","k",":"," ">> \o outcome.error.message)]
        ELSE IF outcome.value.kind = "null"
        THEN [t EXCEPT !.pc = "returned",
                       !.output = Returned(<<"E","r","r","o","r"," ","s","i","m","u","l","a","t","i","n","g"," ","o","r","d","e","r",":"," ">>
                                           \o NullAccess(<<"r","e","a","d">>, <<"r","e","a","d","i","n","g">>, <<"a","s","k">>).message)]
        ELSE IF orderPrice = NullNumber /\ ~NumberTruthy(bestPrice)
        THEN [t EXCEPT !.pc = "returned", !.output = Returned(NoPricesText)]
        ELSE [t EXCEPT !.pc = "returned",
                       !.data = SimulationData(t.input, orderPrice, bestPrice),
                       !.output = Returned(SimulationText(
                                      SimulationData(t.input, orderPrice, bestPrice)))]

SimulateBetResume ==
    /\ tool.pc = "fetching"
    /\ pc = "done"
    /\ tool' = IF tool.step = "events" THEN SimulateAfterEvents(Awaited(tool), result)
               ELSE SimulateAfterOrderBook(Awaited(tool), result)
    /\ pc' = "idle"
    /\ call' = NoCall
    /\ frame' = NoFrame
    /\ sent' = <<>>
    /\ response' = NoResponse
    /\ result' = Pending
    /\ UNCHANGED <<env, dotenvFile, now, signIn, signOut, apiConfig, configOut, peer, server>>

SimulateBetNext ==
    \/ \E input \in SimulateBetInputs : SimulateBetExecute(input)
    \/ ToolFetch
    \/ SimulateBetAnswer
    \/ AfterFetch
    \/ SimulateBetResume
    \/ ToolReturn

SimulateBetInit == PlaceBetInit

SpecSimulateBet == SimulateBetInit /\ [][SimulateBetNext]_vars

-----------------------------------------------------------------------------
(* The fetchFromFutuur of src/utils/api.ts: apiConfig is read from the      *)
(* environment once, when the module is loaded, and a request is sent       *)
(* whatever the credentials.                                                *)

baseUrl == <<"h","t","t","p","s",":","/","/","a","p","i",".","f","u","t","u","u","r",".","c","o","m","/","a","p","i","/","v","1">>

publicEndpoints == << <<"q","u","e","s","t","i","o","n","s">>, <<"c","a","t","e","g","o","r","i","e","s">> >>

\* publicEndpoints.some((prefix) => endpoint.startsWith(prefix) || endpoint === prefix)
isPublicEndpoint(endpoint) ==
    \E i \in 1..Len(publicEndpoints) :
        StartsWith(endpoint, publicEndpoints[i]) \/ endpoint = publicEndpoints[i]

\* buildSignature(params, privateKey).hmac, the clock at ms
BuildSignature(params, privateKey, cfg, ms) ==
    HmacSha512(privateKey,
               ParamString(SortedParams(
                   ParamsToSign(params, Prop(cfg, PUBLIC_KEY).s, TimestampOf(ms)))))

\* buildHeaders(params): no header at all when a key is missing
BuildHeaders(params, cfg, ms) ==
    IF ~Truthy(Prop(cfg, PUBLIC_KEY)) \/ ~Truthy(Prop(cfg, PRIVATE_KEY)) THEN <<>>
    ELSE FromEntries(<<
             <<KEY, Str(Prop(cfg, PUBLIC_KEY).s)>>,
             <<TIMESTAMP, Str(ToDecimal(TimestampOf(ms)))>>,
             <<HMAC, Str(BuildSignature(params, Prop(cfg, PRIVATE_KEY).s, cfg, ms))>> >>)

AUTHORIZATION == <<"A","u","t","h","o","r","i","z","a","t","i","o","n">>

\* the options of a call: token is a string or undefined
Options(params, token, method, body, useHmac) ==
    [params |-> params, token |-> token, method |-> method, body |-> body,
     useHmac |-> useHmac]

\* "Handle authentication": the headers after the if (!isPublicEndpoint)
AuthHeaders(c, cfg, ms) ==
    IF isPublicEndpoint(c.endpoint) THEN <<>>
    ELSE IF c.options.useHmac /\ Truthy(Prop(cfg, PUBLIC_KEY)) /\ Truthy(Prop(cfg, PRIVATE_KEY))
    THEN BuildHeaders(IF c.options.method = GET THEN c.options.params
                      ELSE IF c.options.body.present THEN c.options.body.obj ELSE <<>>,
                      cfg, ms)
    ELSE IF Truthy(c.options.token)
    THEN FromEntries(<< <<AUTHORIZATION, Str(<<"B","e","a","r","e","r"," ">> \o c.options.token.s)>> >>)
    ELSE <<>>

RECURSIVE QueryPairs(_)
\* the appends of "Build query string": undefined skipped, one pair per
\* element of an array
QueryPairs(entries) ==
    IF entries = <<>> THEN <<>>
    ELSE LET key == Head(entries)[1]
             value == Head(entries)[2]
         IN  (CASE value.t = "undefined" -> <<>>
                [] value.t = "array" -> [i \in 1..Len(value.a) |-> <<key, ToStr(value.a[i])>>]
                [] OTHER -> << <<key, ToStr(value)>> >>)
             \o QueryPairs(Tail(entries))

\* url: the base, the endpoint and the query string when it is not empty
UrlOf(endpoint, params) ==
    baseUrl \o <<"/">> \o endpoint
    \o (IF SerializeParams(QueryPairs(Entries(params))) # <<>>
        THEN <<"?">> \o SerializeParams(QueryPairs(Entries(params)))
        ELSE <<>>)

\* fetch(url, fetchOptions)
RequestOf(c, cfg, ms) ==
    [url |-> UrlOf(c.endpoint, c.options.params),
     method |-> c.options.method,
     headers |-> IF c.options.body.present
                 THEN ObjSet(AuthHeaders(c, cfg, ms), CONTENT_TYPE, Str(<<"a","p","p","l","i","c","a","t","i","o","n","/","j","s","o","n">>))
                 ELSE AuthHeaders(c, cfg, ms),
     body |-> IF c.options.body.present
              THEN [present |-> TRUE, text |-> JsonStringify(c.options.body.obj)]
              ELSE [present |-> FALSE, text |-> <<>>]]

\* new Error(JSON.stringify({ ...fetchOptions, response: response.status, url }))
StatusError(req, resp) ==
    [name |-> "Error",
     message |-> <<"{","\"","m","e","t","h","o","d","\"",":">> \o JsonQuote(req.method)
                 \o <<",","\"","h","e","a","d","e","r","s","\"",":">> \o JsonStringify(req.headers)
                 \o (IF req.body.present THEN <<",","\"","b","o","d","y","\"",":">> \o JsonQuote(req.body.text) ELSE <<>>)
                 \o <<",","\"","r","e","s","p","o","n","s","e","\"",":">> \o ToDecimal(resp.status)
                 \o <<",","\"","u","r","l","\"",":">> \o JsonQuote(req.url) \o <<"}">>]

\* how the call settles once fetch() has settled
SettleOf(req, resp) ==
    IF resp.kind = "network" THEN Rejected(FetchFailed)
    ELSE IF ~Ok(resp) THEN Rejected(StatusError(req, resp))
    ELSE ResponseJson(resp)

\* the calls made: public and non-public endpoints, with and without a
\* token, a body, HMAC
OptionsCalls ==
    { [endpoint |-> e, options |-> Options(p, t, m, b, h)] :
        e \in { <<"m","e","/">>, <<"b","e","t","s","/">>, <<"q","u","e","s","t","i","o","n","s","/">>, <<"c","a","t","e","g","o","r","i","e","s">> },
        p \in { <<>>, OneObject },
        t \in { Undefined, Str(<<"t","o","k">>) },
        m \in { GET, POST },
        b \in { NoBody, Body(OneObject) },
        h \in BOOLEAN }

\* the arguments of configureFutuurApi
OptionsConfigs ==
    { FromEntries(<< <<PUBLIC_KEY, Str(<<"p","u","b","C">>)>>, <<PRIVATE_KEY, Str(<<"s","e","c","C">>)>> >>),
      FromEntries(<< <<PRIVATE_KEY, Undefined>> >>) }

\* the module is loaded: apiConfig takes the keys of process.env
OptionsInit ==
    /\ dotenvFile = [pub |-> Absent, priv |-> Absent]
    /\ env \in Envs
    /\ now = 77500
    /\ pc = "idle"
    /\ call = NoCall
    /\ frame = NoFrame
    /\ sent = <<>>
    /\ response = NoResponse
    /\ result = Pending
    /\ signIn = <<>>
    /\ signOut = NotCalled
    /\ apiConfig = FromEntries(<< <<PUBLIC_KEY, EnvValue(env.pub)>>,
                                  <<PRIVATE_KEY, EnvValue(env.priv)>> >>)
    /\ configOut = NoConfig
    /\ peer = NoPeer
    /\ tool = NoTool
    /\ server = NoServer

\* configureFutuurApi(config) of this module, between two calls
OptionsConfigure(config) ==
    /\ pc = "idle"
    /\ apiConfig' = Spread(apiConfig, config)
    /\ UNCHANGED <<env, dotenvFile, now, pc, call, frame, sent, response, result,
                   signIn, signOut, configOut, peer, tool, server>>

\* fetchFromFutuur(endpoint, options) up to its await: the request goes out
OptionsFetch(c) ==
    /\ pc = "idle"
    /\ call' = c
    /\ sent' = <<RequestOf(c, apiConfig, now)>>
    /\ pc' = "fetching"
    /\ UNCHANGED <<env, dotenvFile, now, frame, response, result,
                   signIn, signOut, apiConfig, configOut, peer, tool, server>>

\* fetch() settles and the call with it
OptionsSettles(r) ==
    /\ pc = "fetching"
    /\ response' = r
    /\ result' = SettleOf(sent[1], r)
    /\ pc' = "done"
    /\ UNCHANGED <<env, dotenvFile, now, call, frame, sent,
                   signIn, signOut, apiConfig, configOut, peer, tool, server>>

\* the caller has the outcome; the next call may start
OptionsReturn ==
    /\ pc = "done"
    /\ pc' = "idle"
    /\ call' = NoCall
    /\ sent' = <<>>
    /\ response' = NoResponse
    /\ result' = Pending
    /\ UNCHANGED <<env, dotenvFile, now, frame, signIn, signOut, apiConfig, configOut,
                   peer, tool, server>>

OptionsNext ==
    \/ \E config \in OptionsConfigs : OptionsConfigure(config)
    \/ \E c \in OptionsCalls : OptionsFetch(c)
    \/ \E r \in Responses : OptionsSettles(r)
    \/ OptionsReturn

SpecOptions == OptionsInit /\ [][OptionsNext]_vars

-----------------------------------------------------------------------------
(* sell_bet (tools/SellBetTool.ts): the wager, the events, the ask order.   *)

\* a parsed wager: event and market are strings, shares a number or
\* missing, currency a string or missing
WagerBody(event, market, shares, currency) ==
    [kind |-> "object", event |-> event, market |-> market, shares |-> shares,
     currency |-> currency, position |-> Str(<<"l">>)]

\* a market of an event, and an event of the events answer, for the lookup
\* by id or title
TitledMarket(id, title) == [id |-> id, title |-> title]
TitledEvent(id, title, hasMarkets, markets) ==
    [id |-> id, title |-> title, hasMarkets |-> hasMarkets, markets |-> markets]

\* list.find((x) => x.id.toString() === name || x.title === name): the
\* index of the first match, 0 when there is none
FindByIdOrTitle(list, name) ==
    LET matches(x) == ToDecimal(x.id) = name \/ x.title = name
    IN  IF \E i \in 1..Len(list) : matches(list[i])
        THEN CHOOSE i \in 1..Len(list) :
                /\ matches(list[i])
                /\ \A j \in 1..(i - 1) : ~matches(list[j])
        ELSE 0

\* Math.abs(n) of an integer
Abs(n) == IF n < 0 THEN 0 - n ELSE n

\* fetchFromFutuur(`wagers/${input.id}/`, { method: "GET" })
WagerLookup(input) == CallArgs(<<"w","a","g","e","r","s","/">> \o ToDecimal(input.id) \o <<"/">>, <<>>, GET, NoBody)

WagerNotFoundText == <<"E","r","r","o","r",":"," ","W","a","g","e","r"," ","n","o","t"," ","f","o","u","n","d",".">>
EventOfWagerNotFoundText == <<"E","r","r","o","r",":"," ","C","o","u","l","d"," ","n","o","t"," ","f","i","n","d"," ","t","h","e"," ","e","v","e","n","t"," ","f","o","r"," ","t","h","i","s"," ","w","a","g","e","r",".">>
MarketOfWagerNotFoundText == <<"E","r","r","o","r",":"," ","C","o","u","l","d"," ","n","o","t"," ","f","i","n","d"," ","t","h","e"," ","m","a","r","k","e","t"," ","f","o","r"," ","t","h","i","s"," ","w","a","g","e","r",".">>
SharesRequiredText == <<"E","r","r","o","r",":"," ","P","l","e","a","s","e"," ","s","p","e","c","i","f","y"," ","'","s","h","a","r","e","s","'"," ","t","o"," ","s","e","l","l","."," ","A","m","o","u","n","t","-","b","a","s","e","d"," ","s","e","l","l","i","n","g"," ","r","e","q","u","i","r","e","s"," ","o","r","d","e","r"," ","b","o","o","k"," ","l","o","o","k","u","p"," ","w","h","i","c","h"," ","i","s"," ","n","o","t"," ","y","e","t"," ","i","m","p","l","e","m","e","n","t","e","d"," ","i","n"," ","t","h","i","s"," ","t","o","o","l",".">>
NoSharesText == <<"E","r","r","o","r",":"," ","N","o"," ","s","h","a","r","e","s"," ","t","o"," ","s","e","l","l"," ","o","r"," ","i","n","v","a","l","i","d"," ","s","h","a","r","e"," ","a","m","o","u","n","t",".">>

\* mutant: the test of sharesToSell <= 0 left out
SharesToSell_Unchecked(input, wagerData) ==
    IF input.shares # Undefined THEN [error |-> <<>>, shares |-> input.shares.n]
    ELSE IF input.amount # Undefined THEN [error |-> SharesRequiredText, shares |-> 0]
    ELSE [error |-> <<>>,
          shares |-> Abs(IF wagerData.shares = Undefined THEN 0 ELSE wagerData.shares.n)]
\* "Determine shares to sell": the share count of the order, or the error
\* text returned instead
SharesToSell(input, wagerData) ==
    LET sharesToSell ==
            IF input.shares # Undefined THEN input.shares.n
            ELSE Abs(IF wagerData.shares = Undefined THEN 0 ELSE wagerData.shares.n)
    IN  IF input.shares = Undefined /\ input.amount # Undefined
        THEN [error |-> SharesRequiredText, shares |-> 0]
        ELSE IF sharesToSell <= 0
        THEN [error |-> NoSharesText, shares |-> 0]
        ELSE [error |-> <<>>, shares |-> sharesToSell]

\* orderPayload
OrderPayload(input, wagerData, marketId, sharesToSell) ==
    FromEntries(<<
        <<<<"m","a","r","k","e","t">>, Num(marketId)>>,
        <<<<"s","i","d","e">>, Str(<<"a","s","k">>)>>,
        <<<<"p","o","s","i","t","i","o","n">>, wagerData.position>>,
        <<<<"p","r","i","c","e">>, IF input.price # Undefined THEN input.price ELSE Null>>,
        <<<<"s","h","a","r","e","s">>, Num(sharesToSell)>>,
        <<<<"c","u","r","r","e","n","c","y">>, IF Truthy(wagerData.currency) THEN wagerData.currency ELSE Str(<<"O","O","M">>)>> >>)

\* what sell_bet is called with, as the schema admits it
SellBetInputs ==
    { [id |-> 12, shares |-> s, amount |-> a, price |-> p, currency_mode |-> Undefined] :
        s \in {Undefined, Num(2)},
        a \in {Undefined, Num(6)},
        p \in {Undefined, Null, Num(1)} }

\* what wagers/12/ answers
WagerResponses ==
    { HttpResponse(200, <<"O","K">>, TRUE, WagerBody(<<"3">>, <<"7">>, Num(5), Str(<<"O","O","M">>))),
      HttpResponse(200, <<"O","K">>, TRUE, WagerBody(<<"C","u","p">>, <<"W","i","n">>, Num(0 - 5), Str(<<"U","S","D","C">>))),
      HttpResponse(200, <<"O","K">>, TRUE, WagerBody(<<"3">>, <<"7">>, Num(0), Undefined)),
      HttpResponse(200, <<"O","K">>, TRUE, WagerBody(<<"3">>, <<"W","i","n">>, Undefined, Str(<<"O","O","M">>))),
      HttpResponse(200, <<"O","K">>, TRUE, JsonNull),
      HttpResponse(404, <<"N","o","t"," ","F","o","u","n","d">>, FALSE, <<>>),
      NetworkFailure }

\* what events/ answers to sell_bet
SellEventsResponses ==
    { HttpResponse(200, <<"O","K">>, TRUE,
                   EventsBody(TRUE, <<TitledEvent(4, <<"V","o","t","e">>, TRUE, <<TitledMarket(7, <<"Y","e","s">>)>>),
                                      TitledEvent(3, <<"C","u","p">>, TRUE,
                                                  <<TitledMarket(8, <<"D","r","a","w">>), TitledMarket(7, <<"W","i","n">>)>>)>>)),
      HttpResponse(200, <<"O","K">>, TRUE,
                   EventsBody(TRUE, <<TitledEvent(3, <<"C","u","p">>, FALSE, <<>>)>>)),
      HttpResponse(200, <<"O","K">>, TRUE, EventsBody(FALSE, <<>>)),
      HttpResponse(200, <<"O","K">>, TRUE, JsonNull),
      NetworkFailure }

\* execute(input) up to its first await: the lookup of the wager
SellBetExecute(input) ==
    /\ tool.pc = "idle"
    /\ tool' = [pc |-> "fetching", step |-> "wager", input |-> input,
                request |-> WagerLookup(input), log |-> <<>>, output |-> NoOutput,
                wagerData |-> JsonNull]
    /\ UNCHANGED <<env, dotenvFile, now, pc, call, frame, sent, response, result,
                   signIn, signOut, apiConfig, configOut, peer, server>>

\* the remote answers the call that is in flight
SellBetAnswer ==
    /\ tool.pc = "fetching"
    /\ \E r \in (CASE tool.step = "wager" -> WagerResponses
                   [] tool.step = "events" -> SellEventsResponses
                   [] OTHER -> OrdersResponses) :
          FetchSettles(r)

\* execute(input) from the await of the wager to the events call
AfterWager(t, outcome) ==
    IF outcome.state = "rejected"
    THEN [t EXCEPT !.pc = "returned",
                   !.output = Returned(<<"E","r","r","o","r"," ","f","e","t","c","h","i","n","g"," ","w","a","g","e","r"," ","d","e","t","a","i","l","s",":"," ">>
                                       \o ErrorToString(outcome.error))]
    ELSE IF outcome.value.kind = "null"
    THEN [t EXCEPT !.pc = "returned", !.output = Returned(WagerNotFoundText)]
    ELSE [t EXCEPT !.step = "events", !.request = EventsLookup,
                   !.wagerData = outcome.value]

\* execute(input) from the await of the events to the createLimitOrder call
AfterSellEvents(t, outcome) ==
    LET results == outcome.value.results
        e == IF outcome.value.hasResults
             THEN FindByIdOrTitle(results, t.wagerData.event) ELSE 0
        m == IF results[e].hasMarkets
             THEN FindByIdOrTitle(results[e].markets, t.wagerData.market) ELSE 0
        sell == SharesToSell(t.input, t.wagerData)
    IN  IF outcome.state = "rejected"
        THEN [t EXCEPT !.pc = "returned",
                       !.output = Returned(<<"E","r","r","o","r"," ","f","i","n","d","i","n","g"," ","m","a","r","k","e","t"," ","f","o","r"," ","w","a","g","e","r",":"," ">>
                                           \o ErrorToString(outcome.error))]
        ELSE IF outcome.value.kind = "null"
        THEN [t EXCEPT !.pc = "returned",
                       !.output = Returned(<<"E","r","r","o","r"," ","f","i","n","d","i","n","g"," ","m","a","r","k","e","t"," ","f","o","r"," ","w","a","g","e","r",":"," ">>
                                           \o ErrorToString(NullAccess(<<"r","e","a","d">>, <<"r","e","a","d","i","n","g">>, <<"r","e","s","u","l","t","s">>)))]
        ELSE IF e = 0
        THEN [t EXCEPT !.pc = "returned", !.output = Returned(EventOfWagerNotFoundText)]
        ELSE IF m = 0
        THEN [t EXCEPT !.pc = "returned", !.output = Returned(MarketOfWagerNotFoundText)]
        ELSE IF sell.error # <<>>
        THEN [t EXCEPT !.pc = "returned", !.output = Returned(sell.error)]
        ELSE [t EXCEPT !.step = "order",
                       !.request = CreateLimitOrder(
                                      OrderPayload(t.input, t.wagerData,
                                                   results[e].markets[m].id, sell.shares))]

\* execute(input) from the await of createLimitOrder on
AfterSellOrder(t, outcome) ==
    IF outcome.state = "rejected"
    THEN [t EXCEPT !.pc = "returned",
                   !.output = Returned(<<"E","r","r","o","r"," ","s","e","l","l","i","n","g"," ","w","a","g","e","r",":"," ">> \o ErrorToString(outcome.error))]
    ELSE [t EXCEPT !.pc = "returned", !.output = Returned(JsonPretty(outcome.value))]

SellBetResume ==
    /\ tool.pc = "fetching"
    /\ pc = "done"
    /\ tool' = CASE tool.step = "wager" -> AfterWager(Awaited(tool), result)
                 [] tool.step = "events" -> AfterSellEvents(Awaited(tool), result)
                 [] OTHER -> AfterSellOrder(Awaited(tool), result)
    /\ pc' = "idle"
    /\ call' = NoCall
    /\ frame' = NoFrame
    /\ sent' = <<>>
    /\ response' = NoResponse
    /\ result' = Pending
    /\ UNCHANGED <<env, dotenvFile, now, signIn, signOut, apiConfig, configOut, peer, server>>

SellBetNext ==
    \/ \E input \in SellBetInputs : SellBetExecute(input)
    \/ ToolFetch
    \/ SellBetAnswer
    \/ AfterFetch
    \/ SellBetResume
    \/ ToolReturn

SellBetInit == PlaceBetInit

SpecSellBet == SellBetInit /\ [][SellBetNext]_vars

-----------------------------------------------------------------------------
(* The HTTP session server (index.ts): the transports map, the handler of   *)
(* POST /mcp, handleSessionRequest for GET and DELETE, and the callbacks    *)
(* set on each transport.  A transport answers the requests handed to it;   *)
(* what it answers is its own business and left open here.                  *)

\* the transports created in one behaviour
MaxTransports == 2

\* the properties every object literal inherits from Object.prototype:
\* transports[name] is defined for them although no session was stored
InheritedNames == { <<"c","o","n","s","t","r","u","c","t","o","r">>, <<"t","o","S","t","r","i","n","g">>, <<"_","_","p","r","o","t","o","_","_">> }

\* sessionIdGenerator: () => randomUUID(): an id no other transport has
SessionIdOf(t) == <<"s">> \o ToDecimal(t)

INITIALIZE == <<"i","n","i","t","i","a","l","i","z","e">>
TOOLS_CALL == <<"t","o","o","l","s","/","c","a","l","l">>
DELETE == <<"D","E","L","E","T","E">>

\* a request on /mcp: the verb, the mcp-session-id header (a string or
\* undefined) and, for a POST, the method of the body
McpRequest(verb, sessionId, method) ==
    [verb |-> verb, sessionId |-> sessionId, method |-> method]

NoRequest == McpRequest(<<>>, Undefined, <<>>)

SessionHeaders ==
    { Undefined, Str(<<>>), Str(<<"z","z">>), Str(<<"c","o","n","s","t","r","u","c","t","o","r">>) }
    \cup { Str(SessionIdOf(t)) : t \in 1..MaxTransports }

McpPosts == { McpRequest(POST, h, m) : h \in SessionHeaders, m \in {INITIALIZE, TOOLS_CALL} }
McpSessionRequests == { McpRequest(v, h, <<>>) : v \in {GET, DELETE}, h \in SessionHeaders }

\* a StreamableHTTPServerTransport: "connecting" while the handler that
\* created it awaits server.connect, then "connected", "initialized" once
\* it has a sessionId, "closed" at the end; req and seen belong to the
\* suspended handler
Transport(state, sessionId, req, seen) ==
    [state |-> state, sessionId |-> sessionId, req |-> req, seen |-> seen]

\* how a request ended: the status sent (0: none), the transport whose
\* handleRequest was called, the transport created, and the session ids
\* stored when the request arrived
Answer(req, status, transport, created, seen) ==
    [req |-> req, status |-> status, transport |-> transport, created |-> created,
     seen |-> seen]

NoAnswer == Answer(NoRequest, 0, 0, 0, {})

\* the own keys of the transports object
StoredIds(map) == { map[i].k : i \in 1..Len(map) }

\* transports[sessionId]: a stored transport, an inherited property, or
\* undefined
Lookup(map, sessionId) ==
    IF HasKey(map, sessionId) THEN [kind |-> "transport", t |-> Get(map, sessionId).n]
    ELSE IF sessionId \in InheritedNames THEN [kind |-> "inherited", t |-> 0]
    ELSE [kind |-> "undefined", t |-> 0]

\* onsessioninitialized: transports[sessionId] = transport
OnSessionInitialized(map, sessionId, t) == ObjSet(map, sessionId, Num(t))

\* mutant: onclose that leaves the map as it is
OnClose_EntryKept(map, transport) == map
\* transport.onclose: if (transport.sessionId) delete transports[transport.sessionId]
OnClose(map, transport) ==
    IF transport.sessionId # <<>>
    THEN SelectSeq(map, LAMBDA e : e.k # transport.sessionId)
    ELSE map

\* what a handler that throws leaves the client with: the framework's 500,
\* or no answer at all
ThrownStatuses == {500, 0}

\* what a transport answers to a request handed to it
TransportStatuses == {200, 400}

SessionInit ==
    /\ dotenvFile = [pub |-> Absent, priv |-> Absent]
    /\ env = [pub |-> Absent, priv |-> Absent]
    /\ now = 77500
    /\ pc = "idle"
    /\ call = NoCall
    /\ frame = NoFrame
    /\ sent = <<>>
    /\ response = NoResponse
    /\ result = Pending
    /\ signIn = <<>>
    /\ signOut = NotCalled
    /\ apiConfig = <<>>
    /\ configOut = NoConfig
    /\ peer = NoPeer
    /\ tool = NoTool
    /\ server = [up |-> TRUE, transports |-> <<>>, objs |-> <<>>, last |-> NoAnswer]

\* transport.handleRequest(req, res, ...) on a transport of the map: a
\* DELETE ends the session, which closes the transport
HandleRequest(s, t, req, status) ==
    IF req.verb = DELETE /\ s.objs[t].state = "initialized"
    THEN [s EXCEPT !.objs[t].state = "closed",
                   !.transports = OnClose(s.transports, s.objs[t]),
                   !.last = Answer(req, 200, t, 0, StoredIds(s.transports))]
    ELSE [s EXCEPT !.last = Answer(req, status, t, 0, StoredIds(s.transports))]

\* res.status(400): the request is refused by the handler itself
BadRequest(s, req) ==
    [s EXCEPT !.last = Answer(req, 400, 0, 0, StoredIds(s.transports))]

\* transport.handleRequest is not a function: the handler throws
HandlerThrows(s, req, status) ==
    [s EXCEPT !.last = Answer(req, status, 0, 0, StoredIds(s.transports))]

\* app.post("/mcp") up to its first await, or to its end
PostMcp(req) ==
    /\ server.up
    /\ LET sessionId == req.sessionId
           found == Lookup(server.transports, sessionId.s)
       IN  IF Truthy(sessionId) /\ found.kind = "transport"
           THEN \E status \in TransportStatuses :
                   server' = HandleRequest(server, found.t, req, status)
           ELSE IF Truthy(sessionId) /\ found.kind = "inherited"
           THEN \E status \in ThrownStatuses :
                   server' = HandlerThrows(server, req, status)
           ELSE IF ~Truthy(sessionId) /\ req.method = INITIALIZE
           THEN /\ Len(server.objs) < MaxTransports
                /\ server' = [server EXCEPT
                                !.objs = Append(@, Transport("connecting", <<>>, req,
                                                             StoredIds(server.transports)))]
           ELSE server' = BadRequest(server, req)
    /\ UNCHANGED <<env, dotenvFile, now, pc, call, frame, sent, response, result,
                   signIn, signOut, apiConfig, configOut, peer, tool>>

\* app.post("/mcp") from the await of server.connect on: the transport is
\* handed the initialize request; when it accepts it, it takes its session
\* id and calls onsessioninitialized
PostMcpConnected(t, accepted) ==
    /\ server.up
    /\ t \in 1..Len(server.objs)
    /\ server.objs[t].state = "connecting"
    /\ server' =
         IF accepted
         THEN [server EXCEPT
                 !.objs[t] = Transport("initialized", SessionIdOf(t), NoRequest, {}),
                 !.transports = OnSessionInitialized(@, SessionIdOf(t), t),
                 !.last = Answer(server.objs[t].req, 200, t, t, server.objs[t].seen)]
         ELSE [server EXCEPT
                 !.objs[t] = Transport("connected", <<>>, NoRequest, {}),
                 !.last = Answer(server.objs[t].req, 400, t, t, server.objs[t].seen)]
    /\ UNCHANGED <<env, dotenvFile, now, pc, call, frame, sent, response, result,
                   signIn, signOut, apiConfig, configOut, peer, tool>>

\* handleSessionRequest, for GET and DELETE
HandleSessionRequest(req) ==
    /\ server.up
    /\ LET sessionId == req.sessionId
           found == Lookup(server.transports, sessionId.s)
       IN  IF ~Truthy(sessionId) \/ found.kind = "undefined"
           THEN server' = BadRequest(server, req)
           ELSE IF found.kind = "inherited"
           THEN \E status \in ThrownStatuses :
                   server' = HandlerThrows(server, req, status)
           ELSE \E status \in TransportStatuses :
                   server' = HandleRequest(server, found.t, req, status)
    /\ UNCHANGED <<env, dotenvFile, now, pc, call, frame, sent, response, result,
                   signIn, signOut, apiConfig, configOut, peer, tool>>

\* a transport closes (the client is gone, or the server closes it): its
\* onclose runs
TransportCloses(t) ==
    /\ server.up
    /\ t \in 1..Len(server.objs)
    /\ server.objs[t].state \in {"connected", "initialized"}
    /\ server' = [server EXCEPT !.objs[t].state = "closed",
                                !.transports = OnClose(@, server.objs[t])]
    /\ UNCHANGED <<env, dotenvFile, now, pc, call, frame, sent, response, result,
                   signIn, signOut, apiConfig, configOut, peer, tool>>

SessionNext ==
    \/ \E req \in McpPosts : PostMcp(req)
    \/ \E t \in 1..MaxTransports, accepted \in BOOLEAN : PostMcpConnected(t, accepted)
    \/ \E req \in McpSessionRequests : HandleSessionRequest(req)
    \/ \E t \in 1..MaxTransports : TransportCloses(t)

SpecSession == SessionInit /\ [][SessionNext]_vars

-----------------------------------------------------------------------------
(* What the properties below read off a request.                            *)

\* the message under an HMAC header value
SignedMessage(h) == SubSeq(h, FirstIndex(h, "|") + 1, Len(h) - 1)

\* the secret an HMAC header value was keyed with
SigningSecret(h) == SubSeq(h, 2, FirstIndex(h, "|") - 1)

\* the query string of a URL text
QueryOfUrl(u) ==
    LET h == FirstIndex(u, "#")
        noHash == IF h = 0 THEN u ELSE SubSeq(u, 1, h - 1)
        q == FirstIndex(noHash, "?")
    IN  IF q = 0 THEN <<>> ELSE SubSeq(noHash, q + 1, Len(noHash))

AuthHeaderNames == {KEY, TIMESTAMP, HMAC}

\* the <<name, value>> pairs a request's signature covers
SignedPairs(req) == Range(ParseQuery(SignedMessage(Get(req.headers, HMAC).s)))

\* the pairs the signer injects: the Key and Timestamp headers of the request
InjectedPairs(req) ==
    { <<KEY, Get(req.headers, KEY).s>>, <<TIMESTAMP, Get(req.headers, TIMESTAMP).s>> }

IsSigned(req) == \A n \in AuthHeaderNames : HasKey(req.headers, n)

-----------------------------------------------------------------------------
(* C1-C10.                                                                  *)

\* C1: for every GET sent to an authenticated endpoint, the key/value pairs
\* that are signed, the injected Key and Timestamp left out, are exactly the
\* key/value pairs of the query string of the URL that is sent.
C1_SignedPairsAreSentQuery ==
    \A i \in 1..Len(sent) :
        (sent[i].method = GET /\ IsSigned(sent[i])) =>
            SignedPairs(sent[i]) \ InjectedPairs(sent[i])
                = Range(ParseQuery(QueryOfUrl(sent[i].url)))

\* C2: a call to an endpoint classified Authenticated while the public or the
\* private key is unset or empty is rejected with the keys-missing error and
\* issues no request; and no request to such an endpoint lacks Key,
\* Timestamp or HMAC.
C2_MissingKeysRejectWithoutRequest ==
    /\ (pc # "idle" /\ ~frame.isPublic /\ (Falsy(env.pub) \/ Falsy(env.priv))) =>
          /\ pc = "done"
          /\ sent = <<>>
          /\ result.state = "rejected"
          /\ StartsWith(result.error.message, <<"F","u","t","u","u","r"," ","k","e","y","s"," ","m","i","s","s","i","n","g">>)
    /\ \A i \in 1..Len(sent) : ~frame.isPublic => IsSigned(sent[i])

C2_Witness ==
    /\ pc = "done"
    /\ ~frame.isPublic
    /\ ~Falsy(env.pub) /\ Falsy(env.priv)
    /\ sent = <<>>
    /\ result.state = "rejected"

\* C3: a request sent to an Authenticated endpoint carries Key, Timestamp and
\* HMAC; a request sent to a Public endpoint carries none of the three, and is
\* sent whether or not credentials are configured.
C3_AuthHeadersIffAuthenticated ==
    /\ \A i \in 1..Len(sent) :
          IF frame.isPublic
          THEN \A n \in AuthHeaderNames : ~HasKey(sent[i].headers, n)
          ELSE \A n \in AuthHeaderNames : HasKey(sent[i].headers, n)
    /\ (pc # "idle" /\ frame.isPublic) => Len(sent) = 1

C3_Witness ==
    /\ Len(sent) = 1
    /\ frame.isPublic
    /\ Falsy(env.pub)
    /\ ~HasKey(sent[1].headers, HMAC)
    /\ HasKey(sent[1].headers, USER_AGENT)

\* a public prefix stands at the start of the path or right after a slash
PrefixAtStartOrAfterSlash(endpoint) ==
    \E p \in {<<"e","v","e","n","t","s">>, <<"c","a","t","e","g","o","r","i","e","s">>} :
        \E i \in 1..Len(endpoint) :
            /\ i + Len(p) - 1 <= Len(endpoint)
            /\ \A j \in 1..Len(p) : endpoint[i + j - 1] = p[j]
            /\ i = 1 \/ endpoint[i - 1] = "/"

\* C4: an endpoint is classified Public exactly when it starts with a public
\* prefix or contains a slash followed by one; categories/5/ and events/ are
\* Public, bets/, wagers/1/, me and orders/ are Authenticated.
C4_ClassifierIsPrefixTest ==
    pc # "idle" =>
        /\ frame.isPublic <=> PrefixAtStartOrAfterSlash(call.endpoint)
        /\ call.endpoint \in {<<"c","a","t","e","g","o","r","i","e","s","/","5","/">>, <<"e","v","e","n","t","s","/">>} => frame.isPublic
        /\ call.endpoint \in {<<"b","e","t","s","/">>, <<"w","a","g","e","r","s","/","1","/">>, <<"m","e">>, <<"o","r","d","e","r","s","/">>}
              => ~frame.isPublic

C4_Witness ==
    /\ pc = "awaiting"
    /\ call.endpoint = <<"v","1","/","e","v","e","n","t","s","/">>
    /\ frame.isPublic

\* C5: when the payload itself has a Key or a Timestamp field, the signed
\* string carries the configured public key and the signer's timestamp under
\* those names, not the payload's values, and the Key header is the
\* configured public key.
C5_InjectedKeyAndTimestampWin ==
    (signOut.state = "returned" /\ (HasKey(signIn, KEY) \/ HasKey(signIn, TIMESTAMP))) =>
        LET signed == ParseQuery(SignedMessage(Get(signOut.headers, HMAC).s))
        IN  /\ { pr \in Range(signed) : pr[1] = KEY } = { <<KEY, env.pub.val>> }
            /\ { pr \in Range(signed) : pr[1] = TIMESTAMP }
                  = { <<TIMESTAMP, ToDecimal(now \div 1000)>> }
            /\ Get(signOut.headers, KEY).s = env.pub.val

C5_Witness ==
    /\ signOut.state = "returned"
    /\ HasKey(signIn, KEY)
    /\ HasKey(signIn, TIMESTAMP)

\* C6: payloads with the same key/value pairs, built in different insertion
\* orders, get the same signed string, HMAC and Timestamp at the same clock
\* value and with the same credentials.
C6_InsertionOrderIrrelevant ==
    signOut.state = "returned" =>
        \A other \in SignPayloads :
            Range(other) = Range(signIn) =>
                BuildAuthHeaders(other, env, now).headers = signOut.headers

C6_Witness ==
    /\ signOut.state = "returned"
    /\ \E other \in SignPayloads : other # signIn /\ Range(other) = Range(signIn)

\* C7: the signed string lists the key=value pairs of the payload with Key
\* and Timestamp in ascending order of the key strings, joined with "&".
C7_SignedStringInKeyOrder ==
    signOut.state = "returned" =>
        LET signed == ParseQuery(SignedMessage(Get(signOut.headers, HMAC).s))
        IN  /\ \A i \in 1..(Len(signed) - 1) : StrLess(signed[i][1], signed[i + 1][1])
            /\ Range(signed) =
                  { <<signIn[i].k, ToStr(signIn[i].v)>> :
                      i \in { j \in 1..Len(signIn) : signIn[j].k \notin {KEY, TIMESTAMP} } }
                  \cup { <<KEY, env.pub.val>>, <<TIMESTAMP, ToDecimal(now \div 1000)>> }


\* C8: a POST or PATCH carries Content-Type application/json and, when a
\* body was passed, exactly its JSON text; to an authenticated endpoint its
\* signature covers the top-level fields of the body, none when there is no
\* body. A GET carries neither Content-Type nor body.
C8_BodySignedAndSentAsJson ==
    \A i \in 1..Len(sent) :
        LET req == sent[i]
        IN  IF req.method = GET
            THEN /\ ~HasKey(req.headers, CONTENT_TYPE)
                 /\ ~req.body.present
            ELSE /\ HasKey(req.headers, CONTENT_TYPE)
                 /\ Get(req.headers, CONTENT_TYPE).s = <<"a","p","p","l","i","c","a","t","i","o","n","/","j","s","o","n">>
                 /\ req.body.present = call.body.present
                 /\ call.body.present => req.body.text = JsonStringify(call.body.obj)
                 /\ IsSigned(req) =>
                       SignedPairs(req) \ InjectedPairs(req) =
                           { <<call.body.obj[j].k, ToStr(call.body.obj[j].v)>> :
                               j \in 1..Len(call.body.obj) }

C8_Witness ==
    /\ Len(sent) = 1
    /\ sent[1].method = POST
    /\ IsSigned(sent[1])
    /\ call.body.present
    /\ Len(call.body.obj) = 2
    /\ call.params # <<>>
    /\ sent[1].body.text = <<"{","\"","a","\"",":","\"","x","\"",",","\"","b","\"",":","[","\"","x","\"",",","\"","y"," ","z","\"","]","}">>

\* C9: after a non-2xx answer the invocation is rejected with an error that
\* names the status code, the status text, the endpoint and the method and
\* lists the names of the headers sent; the values of Key, Timestamp and HMAC
\* and the private key do not occur in it.
C9_ApiErrorNamesHeadersOnly ==
    (pc = "done" /\ response.kind = "http" /\ ~Ok(response)) =>
        LET msg == result.error.message
            req == sent[1]
            names == [i \in 1..Len(req.headers) |-> Str(req.headers[i].k)]
            tail == <<"\"","h","e","a","d","e","r","s","\"",":">> \o JsonValue(Arr(names)) \o <<"}">>
        IN  /\ result.state = "rejected"
            /\ StartsWith(msg, <<"F","u","t","u","u","r"," ","A","P","I"," ">> \o ToDecimal(response.status)
                               \o <<" ","f","o","r"," ">> \o call.endpoint \o <<":"," ","{">>)
            /\ Includes(msg, <<"\"","s","t","a","t","u","s","T","e","x","t","\"",":">> \o JsonQuote(response.statusText))
            /\ Includes(msg, <<"\"","m","e","t","h","o","d","\"",":">> \o JsonQuote(call.method))
            /\ SubSeq(msg, Len(msg) - Len(tail) + 1, Len(msg)) = tail
            /\ \A n \in AuthHeaderNames :
                  HasKey(req.headers, n) => ~Includes(msg, Get(req.headers, n).s)
            /\ ~Falsy(env.priv) => ~Includes(msg, env.priv.val)

C9_Witness ==
    /\ pc = "done"
    /\ response.kind = "http"
    /\ response.status = 403
    /\ IsSigned(sent[1])
    /\ result.state = "rejected"
    /\ call.params # <<>>

\* C10: a 2xx answer whose body is not JSON, and a failure of the HTTP call
\* itself, each reject the invocation with an error that is not the
\* "Futuur API <status>" error; neither resolves it.
C10_ParseAndNetworkFailuresReject ==
    (pc = "done" /\ Len(sent) = 1
       /\ (response.kind = "network"
             \/ (response.kind = "http" /\ Ok(response) /\ ~response.json))) =>
        /\ result.state = "rejected"
        /\ ~StartsWith(result.error.message, <<"F","u","t","u","u","r"," ","A","P","I"," ">>)

C10_Witness ==
    /\ pc = "done"
    /\ response.kind = "http"
    /\ Ok(response)
    /\ ~response.json
    /\ result.state = "rejected"

-----------------------------------------------------------------------------
(* C11-C20.                                                                 *)

\* C16: for every endpoint string, the URL that is requested is on the fixed
\* base: its scheme and host are those of https://api.futuur.com, so that no
\* endpoint directs a request, or its Key / Timestamp / HMAC headers, to
\* another origin.
C16_EveryRequestGoesToTheBase ==
    \A i \in 1..Len(sent) : StartsWith(sent[i].url, BaseOrigin \o <<"/">>)

\* C11: one invocation of fetchFromFutuur issues at most one HTTP request;
\* once the request is issued the invocation issues no other, and after a
\* non-2xx answer or a network failure it is rejected with the error and the
\* request has still been sent once only.
C11_AtMostOneRequestNoRetry ==
    /\ [](Len(sent) <= 1)
    /\ []((pc = "done" /\ (response.kind = "network"
                             \/ (response.kind = "http" /\ ~Ok(response)))) =>
            (result.state = "rejected" /\ Len(sent) = 1))
    /\ [][(pc \in {"awaiting", "settled", "done"} /\ pc' # "idle") => sent' = sent]_vars

C11_Witness ==
    /\ pc = "done"
    /\ response.kind = "http"
    /\ response.status = 500
    /\ result.state = "rejected"
    /\ Len(sent) = 1

\* C12: every request that is sent carries exactly one User-Agent header, and
\* its value is the same fixed text whether or not the authentication headers
\* and Content-Type were merged into the headers.
C12_UserAgentOnEveryRequest ==
    \A i \in 1..Len(sent) :
        /\ Cardinality({ j \in 1..Len(sent[i].headers) :
                            sent[i].headers[j].k = <<"U","s","e","r","-","A","g","e","n","t">> }) = 1
        /\ Get(sent[i].headers, <<"U","s","e","r","-","A","g","e","n","t">>)
             = Str(<<"M","o","z","i","l","l","a","/","5",".","0"," ","(","c","o","m","p","a","t","i","b","l","e",";"," ","M","y","S","e","r","v","e","r","B","o","t","/","1",".","0",";"," ","+","h","t","t","p","s",":","/","/","e","x","a","m","p","l","e",".","c","o","m",")">>)

C12_Witness ==
    /\ Len(sent) = 1
    /\ IsSigned(sent[1])
    /\ HasKey(sent[1].headers, CONTENT_TYPE)
    /\ HasKey(sent[1].headers, USER_AGENT)

\* the values of the pairs named k, in the order of the list
ValuesNamed(pairs, k) ==
    LET named == SelectSeq(pairs, LAMBDA p : p[1] = k)
    IN  [i \in 1..Len(named) |-> named[i][2]]

\* the values one param contributes to the query
ExpectedValues(v) ==
    CASE v.t = "undefined" -> <<>>
      [] v.t = "array" -> [j \in 1..Len(v.a) |-> ToStr(v.a[j])]
      [] OTHER -> <<ToStr(v)>>

\* C19: in the URL that is sent, after the pairs of the endpoint's own query,
\* an array-valued param has one pair per element, in the order of the array
\* and never joined into one value, a scalar param has exactly one pair, and
\* an undefined param has none; the query holds no other pair.
C19_ParamsBecomeQueryPairs ==
    \A i \in 1..Len(sent) :
        LET pairs == ParseQuery(QueryOfUrl(sent[i].url))
            own == ParseQuery(QueryOfUrl(call.endpoint))
        IN  /\ \A j \in 1..Len(call.params) :
                  ValuesNamed(pairs, call.params[j].k)
                    = ValuesNamed(own, call.params[j].k)
                        \o ExpectedValues(call.params[j].v)
            /\ \A j \in 1..Len(pairs) :
                  \/ \E n \in 1..Len(call.params) : call.params[n].k = pairs[j][1]
                  \/ \E n \in 1..Len(own) : own[n][1] = pairs[j][1]
            /\ \A j \in 1..Len(own) :
                  (\A n \in 1..Len(call.params) : call.params[n].k # own[j][1]) =>
                      ValuesNamed(pairs, own[j][1]) = ValuesNamed(own, own[j][1])

C19_Witness ==
    /\ Len(sent) = 1
    /\ \E j \in 1..Len(call.params) : call.params[j].v.t = "array"
    /\ \E j \in 1..Len(call.params) : call.params[j].v.t = "undefined"
    /\ ParseQuery(QueryOfUrl(sent[1].url)) = << <<<<"a">>, <<"x">>>>, <<<<"a">>, <<"y"," ","z">>>> >>

\* the request carries the second in which it was built, ms being the clock
\* then: as its Timestamp header and as the one Timestamp of the signed string
BuiltAt(req, ms) ==
    /\ Get(req.headers, TIMESTAMP) = Str(ToDecimal(ms \div 1000))
    /\ ValuesNamed(ParseQuery(SignedMessage(Get(req.headers, HMAC).s)), TIMESTAMP)
         = <<ToDecimal(ms \div 1000)>>

\* C13: whenever an invocation builds an authenticated request, whatever was
\* built before it, the Timestamp header of the request is the decimal text
\* of the whole seconds of the clock at that moment, and the signed string
\* holds that same Timestamp and no other.
C13_TimestampReadForEachRequest ==
    [][/\ (pc = "idle" /\ pc' = "awaiting" /\ IsSigned(sent'[1])) =>
              BuiltAt(sent'[1], now)
       /\ (peer.pc = "idle" /\ peer'.pc = "awaiting" /\ IsSigned(peer'.sent[1])) =>
              BuiltAt(peer'.sent[1], now)]_vars

C13_Witness ==
    /\ pc = "awaiting"
    /\ peer.pc = "awaiting"
    /\ call = peer.call
    /\ IsSigned(sent[1])
    /\ IsSigned(peer.sent[1])
    /\ Get(sent[1].headers, KEY) = Get(peer.sent[1].headers, KEY)
    /\ Get(sent[1].headers, TIMESTAMP) = Str(<<"7","7">>)
    /\ Get(peer.sent[1].headers, TIMESTAMP) = Str(<<"7","8">>)
    /\ Get(sent[1].headers, HMAC) # Get(peer.sent[1].headers, HMAC)

\* what an invocation with arguments c issues when it runs with no other in
\* flight, process.env being e, the .env file file and the clock ms
SentAlone(c, e, file, ms) ==
    LET url == RequestUrl(c.endpoint, c.params)
        isPublic == IsPublic(c.endpoint)
        auth == IF isPublic
                THEN [threw |-> FALSE, error |-> NoError, headers |-> <<>>]
                ELSE BuildAuthHeaders(SignaturePayload(c.method, url, c.body),
                                      DotenvConfig(e, file), ms)
    IN  IF auth.threw THEN <<>>
        ELSE <<FetchRequest(url, c.method,
                            WithContentType(WithAuth(BaseHeaders, isPublic, auth.headers),
                                            c.method),
                            c.body)>>

\* the Key header, the Key of the signed string and the secret of the HMAC
\* are the two keys e holds
OneCredentialsRead(reqs, e) ==
    \A i \in 1..Len(reqs) :
        IsSigned(reqs[i]) =>
            /\ Get(reqs[i].headers, KEY) = Str(e.pub.val)
            /\ ValuesNamed(ParseQuery(SignedMessage(Get(reqs[i].headers, HMAC).s)), KEY)
                 = <<e.pub.val>>
            /\ SigningSecret(Get(reqs[i].headers, HMAC).s) = e.priv.val

\* C17: with two invocations interleaved in any way, the request each one
\* issues is the one it issues alone with the same arguments, credentials and
\* clock; a step of one invocation changes nothing of the other, and nothing
\* changes a request once it is issued; and the Key header, the signed Key
\* and the HMAC secret of a request are the keys process.env holds at the
\* one moment the request is built.
C17_InvocationsDoNotInterfere ==
    [][/\ (pc = "idle" /\ pc' # "idle") =>
              /\ sent' = SentAlone(call', env, dotenvFile, now)
              /\ OneCredentialsRead(sent', env')
       /\ (peer.pc = "idle" /\ peer'.pc # "idle") =>
              /\ peer'.sent = SentAlone(peer'.call, env, dotenvFile, now)
              /\ OneCredentialsRead(peer'.sent, env')
       /\ (peer' # peer) => UNCHANGED <<pc, call, frame, sent, response, result>>
       /\ (<<pc, call, frame, sent, response, result>>' #
             <<pc, call, frame, sent, response, result>>) => peer' = peer
       /\ (pc # "idle" /\ pc' # "idle") => UNCHANGED <<call, frame, sent>>
       /\ (peer.pc # "idle" /\ peer'.pc # "idle") =>
              /\ peer'.call = peer.call
              /\ peer'.frame = peer.frame
              /\ peer'.sent = peer.sent]_vars

C17_Witness ==
    /\ pc = "awaiting"
    /\ peer.pc = "settled"
    /\ IsSigned(sent[1])
    /\ IsSigned(peer.sent[1])
    /\ Get(sent[1].headers, KEY) = Str(<<"p","u","b","B">>)
    /\ SigningSecret(Get(sent[1].headers, HMAC).s) = <<"s","e","c","B">>
    /\ Get(peer.sent[1].headers, KEY) = Str(<<"p","u","b","A">>)
    /\ SigningSecret(Get(peer.sent[1].headers, HMAC).s) = <<"s","e","c","A">>

\* the configuration holds a key given to configureFutuurApi
ConfiguredByCall(cfg) ==
    \/ Prop(cfg, PUBLIC_KEY) = Str(<<"p","u","b","C">>)
    \/ Prop(cfg, PRIVATE_KEY) = Str(<<"s","e","c","C">>)

\* C14: after FUTUUR_PUBLIC_KEY / FUTUUR_PRIVATE_KEY have changed, the next
\* getApiConfig() returns the values the environment holds now, and the next
\* buildAuthHeaders() reads them: neither keeps the values of an earlier call.
C14_AccessorsReturnCurrentKeys ==
    /\ (configOut.called /\ ~ConfiguredByCall(configOut.config)) =>
          /\ Prop(configOut.config, PUBLIC_KEY) = EnvValue(env.pub)
          /\ Prop(configOut.config, PRIVATE_KEY) = EnvValue(env.priv)
    /\ signOut.state = "returned" =>
          /\ Get(signOut.headers, KEY) = Str(env.pub.val)
          /\ SigningSecret(Get(signOut.headers, HMAC).s) = env.priv.val

\* C15: with no reconfiguration in between, the Key header of a signature
\* is the publicKey getApiConfig() returns and its HMAC is keyed with the
\* privateKey it returns; and once configureFutuurApi has been given both
\* keys, signatures carry and use those two keys.
C15_SignedWithStoreKeys ==
    /\ (configOut.called /\ signOut.state = "returned") =>
          /\ Get(signOut.headers, KEY) = Prop(configOut.config, PUBLIC_KEY)
          /\ Str(SigningSecret(Get(signOut.headers, HMAC).s))
               = Prop(configOut.config, PRIVATE_KEY)
    /\ (/\ Prop(apiConfig, PUBLIC_KEY) = Str(<<"p","u","b","C">>)
        /\ Prop(apiConfig, PRIVATE_KEY) = Str(<<"s","e","c","C">>)
        /\ signOut.state = "returned") =>
          /\ Get(signOut.headers, KEY) = Str(<<"p","u","b","C">>)
          /\ SigningSecret(Get(signOut.headers, HMAC).s) = <<"s","e","c","C">>

\* C18: a call of buildAuthHeaders leaves apiConfig, process.env, the .env
\* file and all other state as they were, and a second call with the same
\* payload, the same credentials and the same clock returns the same Key,
\* Timestamp and HMAC.
C18_SigningChangesNoState ==
    [][/\ (signOut.state = "none" /\ signOut'.state # "none") =>
              UNCHANGED <<env, dotenvFile, now, apiConfig, configOut,
                          pc, call, frame, sent, response, result, peer>>
       /\ (signOut.state # "none" /\ signOut'.state # "none"
             /\ signIn' = signIn /\ env' = env) => signOut' = signOut]_vars

-----------------------------------------------------------------------------
(* C21-C30.                                                                 *)

\* C21: a GET to the endpoint "questions/" is a public call: the request
\* that is sent carries a User-Agent header and neither a Key nor an HMAC
\* header.
C21_QuestionsIsPublic ==
    \A i \in 1..Len(sent) :
        (call.endpoint = <<"q","u","e","s","t","i","o","n","s","/">> /\ call.method = GET) =>
            /\ HasKey(sent[i].headers, USER_AGENT)
            /\ ~HasKey(sent[i].headers, KEY)
            /\ ~HasKey(sent[i].headers, HMAC)

RECURSIVE Flatten(_)
Flatten(ss) == IF ss = <<>> THEN <<>> ELSE Head(ss) \o Flatten(Tail(ss))

\* the requests the running tool has issued, the one in flight last
ToolRequests ==
    IF tool.pc = "idle" THEN <<>>
    ELSE Flatten([i \in 1..Len(tool.log) |-> tool.log[i].sent]) \o sent

\* the path and query of a request on the base
OnBase(req, path) == StartsWith(req.url, BaseOrigin \o <<"/">> \o path)

\* C22: whatever place_bet is called with, the body of the POST to orders/
\* has no bet_location field.
C22_BetLocationNotSent ==
    \A i \in 1..Len(ToolRequests) :
        ToolRequests[i].method = POST =>
            ~Includes(ToolRequests[i].body.text, <<"\"","b","e","t","_","l","o","c","a","t","i","o","n","\"">>)

\* C27: an invocation of place_bet issues at most one POST, to orders/, and
\* only after its GET of events/ has resolved with an event that has the
\* market of the payload and order_book_enabled true; the body of the POST
\* has no tool_source; and an invocation that ends without a POST that
\* succeeded has returned an error text, never thrown.
C27_OrderOnlyAfterEventLookup ==
    LET reqs == ToolRequests
        posts == { i \in 1..Len(reqs) : reqs[i].method = POST }
        market == Get(tool.input.confirmed_simulation_payload, <<"m","a","r","k","e","t">>).n
    IN  /\ Cardinality(posts) <= 1
        /\ \A i \in posts :
              /\ i = 2
              /\ OnBase(reqs[i], <<"o","r","d","e","r","s","/">>)
              /\ ~Includes(reqs[i].body.text, <<"t","o","o","l","_","s","o","u","r","c","e">>)
              /\ reqs[1].method = GET
              /\ OnBase(reqs[1], <<"e","v","e","n","t","s","/">>)
              /\ tool.log[1].result.state = "resolved"
              /\ \E n \in 1..Len(tool.log[1].result.value.results) :
                    LET e == tool.log[1].result.value.results[n]
                    IN  /\ e.hasMarkets
                        /\ market \in Range(e.markets)
                        /\ e.order_book_enabled = "true"
        /\ tool.pc = "returned" =>
              /\ tool.output.state = "returned"
              /\ (posts = {} \/ tool.log[2].result.state = "rejected") =>
                    \/ StartsWith(tool.output.text, <<"E","r","r","o","r">>)
                    \/ Includes(tool.output.text, <<"O","r","d","e","r"," ","B","o","o","k"," ","N","o","t"," ","E","n","a","b","l","e","d">>)
              /\ (posts # {} /\ tool.log[2].result.state = "resolved") =>
                    StartsWith(tool.output.text, <<"{">>)

C27_Witness ==
    /\ tool.pc = "returned"
    /\ Len(tool.log) = 2
    /\ tool.log[2].sent # <<>>
    /\ tool.log[2].sent[1].method = POST
    /\ tool.log[2].result.state = "resolved"
    /\ Includes(tool.output.text, <<"\"","s","t","a","t","u","s","\"",":"," ","\"","o","p","e","n","\"">>)

\* the listing requests of the invocation that carry currency_mode = mode
ListingRequests(mode) ==
    { i \in 1..Len(tool.log) :
        /\ StartsWith(tool.log[i].sent[1].url, <<"h","t","t","p","s",":","/","/","a","p","i",".","f","u","t","u","u","r",".","c","o","m","/","a","p","i","/","v","1","/","m","a","r","k","e","t","s","?">>)
        /\ \E j \in 1..Len(ParseQuery(QueryOfUrl(tool.log[i].sent[1].url))) :
              ParseQuery(QueryOfUrl(tool.log[i].sent[1].url))[j] = <<<<"c","u","r","r","e","n","c","y","_","m","o","d","e">>, mode>> }

\* C23: when get_markets called with currency_mode "all" has returned a
\* listing, it has issued one markets request with currency_mode=play_money
\* and one with currency_mode=real_money, and the returned results hold the
\* results of every listing it was answered
C23_AllFetchesBothModes ==
    (/\ tool.pc = "returned"
     /\ tool.input.currency_mode = ALL_MODES
     /\ tool.output.data # NoData)
    => /\ Cardinality(ListingRequests(PLAY_MONEY)) = 1
       /\ Cardinality(ListingRequests(REAL_MONEY)) = 1
       /\ \A i \in 1..Len(tool.log) :
             tool.log[i].response.body.hasResults =>
                \A k \in 1..Len(tool.log[i].response.body.results) :
                   \E n \in 1..Len(tool.output.data.results) :
                      tool.output.data.results[n] = tool.log[i].response.body.results[k]

\* C24: get_bet_simulation called with neither or both of amount and shares
\* returns an error text and issues no HTTP request at all; called with
\* exactly one of them it queries events/ first and the order book of the
\* event second, and returns only after the events query.
C24_ExactlyOneOfAmountAndShares ==
    tool.pc # "idle" =>
        LET exactlyOne == (tool.input.amount = NoNumber) # (tool.input.shares = NoNumber)
            reqs == ToolRequests
        IN  /\ ~exactlyOne =>
                  /\ tool.pc = "returned"
                  /\ StartsWith(tool.output.text, <<"E","r","r","o","r",":"," ">>)
                  /\ Includes(tool.output.text, <<"'","a","m","o","u","n","t","'"," ","o","r"," ","'","s","h","a","r","e","s","'">>)
                  /\ tool.data = NoData
                  /\ reqs = <<>>
                  /\ tool.log = <<>>
                  /\ pc = "idle"
            /\ exactlyOne =>
                  /\ tool.pc = "returned" => Len(reqs) >= 1
                  /\ Len(reqs) <= 2
                  /\ Len(reqs) >= 1 => reqs[1].method = GET /\ OnBase(reqs[1], <<"e","v","e","n","t","s","/","?","l","i","m","i","t","=","1","0","0">>)
                  /\ Len(reqs) = 2 =>
                        /\ reqs[2].method = GET
                        /\ OnBase(reqs[2], <<"e","v","e","n","t","s","/">>)
                        /\ Includes(reqs[2].url, <<"/","o","r","d","e","r","_","b","o","o","k","/","?","m","a","r","k","e","t","=">>)

\* amount and shares were both given and the invocation has returned
C24_Witness ==
    /\ tool.pc = "returned"
    /\ tool.input.amount # NoNumber
    /\ tool.input.shares # NoNumber
    /\ tool.log = <<>>

\* C28: a simulation payload returned by get_bet_simulation is consistent:
\* its price is a positive number, its shares and amount are finite, and
\* amount = shares x price; so for a limit price of 0, an explicit null
\* price and an order book with no ask levels.
C28_SimulationPayloadConsistent ==
    (tool.pc = "returned" /\ tool.data # NoData) =>
        /\ tool.data.price.kind = "finite"
        /\ tool.data.price.num > 0
        /\ tool.data.shares.kind = "finite"
        /\ tool.data.amount.kind = "finite"
        /\ tool.data.amount = Multiply(tool.data.shares, tool.data.price)

\* C25: while a key of apiConfig is missing or empty, the fetchFromFutuur
\* of src/utils/api.ts sends no request without authentication headers for
\* an endpoint that is not public: every request in flight for such an
\* endpoint carries Key, Timestamp and HMAC, or an Authorization header.
C25_NoUnsignedFallback ==
    (/\ pc \in {"fetching", "done"}
     /\ ~isPublicEndpoint(call.endpoint)
     /\ (~Truthy(Prop(apiConfig, PUBLIC_KEY)) \/ ~Truthy(Prop(apiConfig, PRIVATE_KEY)))) =>
        \A i \in 1..Len(sent) :
            \/ /\ HasKey(sent[i].headers, KEY)
               /\ HasKey(sent[i].headers, TIMESTAMP)
               /\ HasKey(sent[i].headers, HMAC)
            \/ HasKey(sent[i].headers, AUTHORIZATION)

\* the share count the wager answered to the invocation stands for
WagerShares ==
    IF tool.log[1].result.value.shares = Undefined THEN 0
    ELSE Abs(tool.log[1].result.value.shares.n)

C29_OnlyKnownSessionsOrInitialize ==
    server.last # NoAnswer =>
        LET req == server.last.req
            known == Truthy(req.sessionId) /\ req.sessionId.s \in server.last.seen
            initialize == req.verb = POST /\ ~Truthy(req.sessionId) /\ req.method = INITIALIZE
        IN  /\ server.last.transport # 0 => known \/ initialize
            /\ server.last.created # 0 => initialize
            /\ ~(known \/ initialize) =>
                  /\ server.last.status = 400
                  /\ server.last.transport = 0
                  /\ server.last.created = 0

\* the sessions that have ended: the ids of the closed transports
EndedSessions ==
    { server.objs[t].sessionId :
        t \in { u \in 1..Len(server.objs) :
                  server.objs[u].state = "closed" /\ server.objs[u].sessionId # <<>> } }

\* C30: every key of the transports map maps to the transport with that
\* sessionId; a key enters the map only when the transport created for an
\* initialize request is initialized, under that transport's id; the id of
\* a closed transport is not in the map; and a request that carries the id
\* of a session that had ended when it arrived is answered with 400;
\* whatever the interleaving of requests and closes of other sessions.
C30_MapHoldsTheLiveSessions ==
    /\ [](/\ \A i \in 1..Len(server.transports) :
                LET t == server.transports[i].v.n
                IN  /\ t \in 1..Len(server.objs)
                    /\ server.objs[t].sessionId = server.transports[i].k
                    /\ server.objs[t].state = "initialized"
          /\ EndedSessions \cap StoredIds(server.transports) = {}
          /\ (/\ server.last # NoAnswer
              /\ server.last.req.sessionId.s \in EndedSessions
              /\ server.last.req.sessionId.s \notin server.last.seen)
             => /\ server.last.status = 400
                /\ server.last.transport = 0)
    /\ [][\A k \in StoredIds(server.transports') \ StoredIds(server.transports) :
             \E t \in 1..Len(server.objs) :
                /\ server.objs[t].state = "connecting"
                /\ server.objs[t].req.method = INITIALIZE
                /\ server.objs'[t].state = "initialized"
                /\ server.objs'[t].sessionId = k
                /\ Get(server.transports', k) = Num(t)]_vars

\* session s1 has ended, session s2 is stored, and a request that carried
\* s1 after its end was refused
C30_Witness ==
    /\ Len(server.objs) = 2
    /\ server.objs[1].state = "closed"
    /\ server.objs[1].sessionId = SessionIdOf(1)
    /\ server.objs[2].state = "initialized"
    /\ StoredIds(server.transports) = {SessionIdOf(2)}
    /\ server.last.req.sessionId = Str(SessionIdOf(1))
    /\ SessionIdOf(1) \notin server.last.seen
    /\ server.last.status = 400

====
